---- MODULE Spec2Model ----
(***************************************************************************)
(* Study planner engine: the phased greedy allocator (allocate_plan), the  *)
(* scoring helpers it ranks candidates with, and the swap rebalancer       *)
(* (rebalance_allocations).                                                *)
(*                                                                         *)
(* Conventions.  A calendar date is a day number (day 1 is the first day   *)
(* of the horizon); NoDate stands for None / a missing date.  A subject_id *)
(* is a positive integer whose numeric order is the lexicographic order of *)
(* the id strings; a slot_id likewise.  A float of the program is an exact *)
(* rational [n, d] with d > 0 in lowest terms.  An optional dictionary     *)
(* entry is a set: {} when the key is absent, {v} when it holds v.         *)
(***************************************************************************)
EXTENDS Integers, Sequences, FiniteSets, TLC

\* ------------------------------------------------------------------ bounds
\* Calendar days of the horizon are 1..MaxDay.
MaxDay == 2
\* A slot's max_minutes ranges over 1..MaxCap, session_minutes over 0..MaxCap.
MaxCap == 2
\* Workload hours range over 0..MaxWork half-minutes (1/120 h).
MaxWork == 3
\* Number of slots and of subjects of a call.
NumSlots == 2
NumSubjects == 2

\* ------------------------------------------------------------- primitives
NoDate == 0
Days == 1..MaxDay

Min2(a, b) == IF a <= b THEN a ELSE b
Max2(a, b) == IF a >= b THEN a ELSE b
Abs(a) == IF a < 0 THEN -a ELSE a

MinOfSet(S) == CHOOSE x \in S : \A y \in S : x <= y

\* Optional dictionary entries.
Absent == {}
Has(opt) == opt # {}
Val(opt) == CHOOSE v \in opt : TRUE
\* dict.get(key, default)
Get(opt, default) == IF opt = {} THEN default ELSE Val(opt)

RECURSIVE SumOver(_, _)
\* Sum of f[x] for x in S.
SumOver(f, S) ==
    IF S = {} THEN 0
    ELSE LET x == CHOOSE y \in S : TRUE IN f[x] + SumOver(f, S \ {x})

RECURSIVE MinutesWhere(_, _)
\* The minutes of the records of a list that Keep selects.
MinutesWhere(Keep(_), allocations) ==
    IF allocations = <<>> THEN 0
    ELSE (IF Keep(Head(allocations)) THEN Head(allocations).minutes ELSE 0)
         + MinutesWhere(Keep, Tail(allocations))

\* -------------------------------------------------------------- rationals
RECURSIVE Gcd(_, _)
Gcd(a, b) == IF b = 0 THEN a ELSE Gcd(b, a % b)

Zero == [n |-> 0, d |-> 1]
One == [n |-> 1, d |-> 1]

Reduce(n, d, g) == [n |-> n \div g, d |-> d \div g]
Rat(n, d) ==
    IF n = 0 THEN Zero
    ELSE IF d = 1 THEN [n |-> n, d |-> 1]
    ELSE Reduce(n, d, Gcd(Abs(n), d))
RatInt(i) == [n |-> i, d |-> 1]
AddOver(x, y, g) == Rat(x.n * (y.d \div g) + y.n * (x.d \div g), (x.d \div g) * y.d)
RatAdd(x, y) ==
    IF x.n = 0 THEN y
    ELSE IF y.n = 0 THEN x
    ELSE IF x.d = y.d THEN Rat(x.n + y.n, x.d)
    ELSE AddOver(x, y, Gcd(x.d, y.d))
RatNeg(x) == [n |-> -x.n, d |-> x.d]
RatSub(x, y) == RatAdd(x, RatNeg(y))
MulOver(x, y, g1, g2) ==
    [n |-> (x.n \div g1) * (y.n \div g2), d |-> (x.d \div g2) * (y.d \div g1)]
RatMul(x, y) ==
    IF x.n = 0 \/ y.n = 0 THEN Zero
    ELSE IF x = One THEN y
    ELSE IF y = One THEN x
    ELSE MulOver(x, y, Gcd(Abs(x.n), y.d), Gcd(Abs(y.n), x.d))

RECURSIVE CmpFrac(_, _, _, _)
\* Sign of p/q - r/s for q, s > 0, by continued fractions (no large products).
CmpFrac(p, q, r, s) ==
    LET a == p \div q
        b == r \div s
        pr == p % q
        rr == r % s
    IN IF a # b THEN (IF a < b THEN -1 ELSE 1)
       ELSE IF pr = 0 /\ rr = 0 THEN 0
       ELSE IF pr = 0 THEN -1
       ELSE IF rr = 0 THEN 1
       ELSE CmpFrac(s, rr, q, pr)

RatLt(x, y) == IF x.d = y.d THEN x.n < y.n ELSE CmpFrac(x.n, x.d, y.n, y.d) < 0
RatLe(x, y) == IF x.d = y.d THEN x.n <= y.n ELSE CmpFrac(x.n, x.d, y.n, y.d) <= 0
RatMin(x, y) == IF RatLe(x, y) THEN x ELSE y
RatMax(x, y) == IF RatLe(x, y) THEN y ELSE x

\* ---------------------------------------------------------------- sorting
\* A sort key is a tuple of rationals, compared like a Python tuple.
RECURSIVE KeyLt(_, _)
KeyLt(k1, k2) ==
    IF k1 = <<>> \/ k2 = <<>> THEN k1 = <<>> /\ k2 # <<>>
    ELSE IF Head(k1) # Head(k2) THEN RatLt(Head(k1), Head(k2))
    ELSE KeyLt(Tail(k1), Tail(k2))

\* A key of integers.
IntKey(t) == [i \in DOMAIN t |-> RatInt(t[i])]

RECURSIVE Insert(_, _)
\* s with x put before the first element whose key is not less than x's.
Insert(x, s) ==
    IF s = <<>> THEN <<x>>
    ELSE IF KeyLt(Head(s).key, x.key) THEN <<Head(s)>> \o Insert(x, Tail(s))
    ELSE <<x>> \o s

RECURSIVE SortKeyed(_)
SortKeyed(s) == IF s = <<>> THEN <<>> ELSE Insert(Head(s), SortKeyed(Tail(s)))

Items(keyed) == [i \in DOMAIN keyed |-> keyed[i].item]

\* Python's sorted(s, key=key): a stable sort of s by the key of its elements.
sorted(s, key(_)) ==
    Items(SortKeyed([i \in DOMAIN s |-> [key |-> key(s[i]) \o <<>>, item |-> s[i]]] \o <<>>))

\* str(x).lower() on the mode strings the model uses.
Lower(s) ==
    CASE s = "FORWARD" -> "forward"
      [] s = "BACKWARD" -> "backward"
      [] s = "HYBRID" -> "hybrid"
      [] s = "STRICT" -> "strict"
      [] s = "BALANCED" -> "balanced"
      [] s = "OFF" -> "off"
      [] s = "CONCENTRATED" -> "concentrated"
      [] s = "DIFFUSE" -> "diffuse"
      [] OTHER -> s

\* ---------------------------------------------------------------- scoring
\* DEFAULT_SCORE_WEIGHTS, in hundredths.
w_urgency == 35
w_priority == 20
w_gap == 15
w_difficulty == 10
w_window == 10
w_mode == 5
w_concentration == 5
w_streak == 15
DEFAULT_SCORE_WEIGHTS ==
    [w_urgency |-> Rat(w_urgency, 100), w_priority |-> Rat(w_priority, 100),
     w_gap |-> Rat(w_gap, 100), w_difficulty |-> Rat(w_difficulty, 100),
     w_window |-> Rat(w_window, 100), w_mode |-> Rat(w_mode, 100),
     w_concentration |-> Rat(w_concentration, 100), w_streak |-> Rat(w_streak, 100)]

\* A features dictionary: every feature a rational (a missing key is 0.0).
NoFeatures ==
    [urgency |-> Zero, priority |-> Zero, completion_gap |-> Zero,
     difficulty |-> Zero, window_pressure |-> Zero,
     mode_alignment |-> Zero, concentration_penalty |-> Zero,
     streak_penalty |-> Zero]

WeightedSum(w, features) ==
    RatAdd(RatMul(w.w_urgency, features.urgency),
    RatAdd(RatMul(w.w_priority, features.priority),
    RatAdd(RatMul(w.w_gap, features.completion_gap),
    RatAdd(RatMul(w.w_difficulty, features.difficulty),
    RatAdd(RatMul(w.w_window, features.window_pressure),
    RatAdd(RatMul(w.w_mode, features.mode_alignment),
    RatAdd(RatNeg(RatMul(w.w_concentration, features.concentration_penalty)),
           RatNeg(RatMul(w.w_streak, features.streak_penalty)))))))))

compute_score(features) == WeightedSum(DEFAULT_SCORE_WEIGHTS, features)

\* DEFAULT_CONTINUITY_CONFIG.
DefaultLookbackDays == 5
DefaultRollingWindowDays == 4
DefaultStreakThresholdDays == 2
DEFAULT_CONTINUITY_CONFIG ==
    [enabled |-> TRUE,
     lookback_days |-> DefaultLookbackDays,
     rolling_window_days |-> DefaultRollingWindowDays,
     streak_threshold_days |-> DefaultStreakThresholdDays,
     rolling_share_threshold |-> Rat(65, 100),
     streak_penalty_factor |-> Rat(25, 100),
     rolling_penalty_factor |-> One,
     max_penalty |-> One]

\* minutes_by_day.get(day, {}).get(subject_id, 0)
MinutesOn(minutes_by_day, day, sid) ==
    IF day \in DOMAIN minutes_by_day /\ sid \in DOMAIN minutes_by_day[day]
    THEN minutes_by_day[day][sid] ELSE 0

\* total_minutes_by_day.get(day, 0): the ledger adds every registered chunk
\* to the subject's entry and to the day's total together.
TotalOn(minutes_by_day, day) ==
    IF day \in DOMAIN minutes_by_day
    THEN SumOver(minutes_by_day[day], DOMAIN minutes_by_day[day]) ELSE 0

RECURSIVE StreakBack(_, _, _, _)
\* Number of consecutive days ref-1, ref-2, ... on which sid has minutes,
\* looking back at most `limit` days.
StreakBack(minutes_by_day, sid, ref, limit) ==
    IF limit <= 0 \/ MinutesOn(minutes_by_day, ref - 1, sid) <= 0 THEN 0
    ELSE 1 + StreakBack(minutes_by_day, sid, ref - 1, limit - 1)

\* Sum over the rolling window (the days ref-1 .. ref-window) of f(day).
RECURSIVE RollingSum(_, _, _)
RollingSum(f(_), ref, window) ==
    IF window <= 0 THEN 0 ELSE f(ref - window) + RollingSum(f, ref, window - 1)

\* float(rolling_subject_minutes) / float(rolling_total_minutes), or 0.0
RollingShare(rolling_subject_minutes, rolling_total_minutes) ==
    IF rolling_total_minutes > 0
    THEN Rat(rolling_subject_minutes, rolling_total_minutes) ELSE Zero

ContinuityPenalty(cfg, streak_days, streak_threshold, rolling_share, rolling_share_threshold) ==
    RatMin(RatMax(Zero, cfg.max_penalty),
           RatAdd(IF streak_days > streak_threshold
                  THEN RatMul(RatInt(streak_days - streak_threshold),
                              RatMax(Zero, cfg.streak_penalty_factor))
                  ELSE Zero,
                  IF RatLt(rolling_share_threshold, rolling_share)
                  THEN RatMul(RatSub(rolling_share, rolling_share_threshold),
                              RatMax(Zero, cfg.rolling_penalty_factor))
                  ELSE Zero))

compute_recent_continuity_penalty(subject_id, reference_day, minutes_by_day, cfg) ==
    IF ~cfg.enabled THEN Zero
    ELSE ContinuityPenalty(
            cfg,
            StreakBack(minutes_by_day, subject_id, reference_day, Max2(1, cfg.lookback_days)),
            Max2(0, cfg.streak_threshold_days),
            RollingShare(
                RollingSum(LAMBDA d : MinutesOn(minutes_by_day, d, subject_id),
                           reference_day, Max2(1, cfg.rolling_window_days)),
                RollingSum(LAMBDA d : TotalOn(minutes_by_day, d),
                           reference_day, Max2(1, cfg.rolling_window_days))),
            RatMax(Zero, RatMin(One, cfg.rolling_share_threshold)))

\* days_to_exam of a subject without any exam date.
NoExamDays == 1000000000

\* Variant: the priority is not negated.
LowPriorityFirstKey(subject, reference_day) ==
    LET nearest ==
            IF subject.exam_dates # {} THEN MinOfSet(subject.exam_dates)
            ELSE subject.selected_exam_date
        days_to_exam ==
            IF nearest # NoDate THEN Max2(0, nearest - reference_day) ELSE NoExamDays
    IN <<days_to_exam, subject.priority, subject.subject_id>>

deterministic_tie_breaker_key(subject, reference_day) ==
    LET nearest ==
            IF subject.exam_dates # {} THEN MinOfSet(subject.exam_dates)
            ELSE subject.selected_exam_date
        days_to_exam ==
            IF nearest # NoDate THEN Max2(0, nearest - reference_day) ELSE NoExamDays
    IN <<days_to_exam, -subject.priority, subject.subject_id>>

\* -------------------------------------------------------------- allocator
\* The sentinel subject "__slack__" and "no subject yet" (None).
Slack == 0
NoSubject == -1

\* 9999-12-31 as a day number (day 1 is 2026-01-01).
FarDay == 2912443
\* 10**6, the "no limit" default of the distribution limits.
NoLimit == 1000000

\* args: the keyword arguments of the call being executed (allocate_plan or
\* rebalance_allocations); alloc: the local variables of allocate_plan (pc:
\* the phase the call is in); reb: the local variables of
\* rebalance_allocations.
VARIABLES args, alloc, reb

\* round(): to the nearest integer, ties to the even one.
RoundHalfEven(x) ==
    LET f == x.n \div x.d
        r2 == 2 * (x.n % x.d)
    IN IF r2 < x.d THEN f
       ELSE IF r2 > x.d THEN f + 1
       ELSE IF f % 2 = 0 THEN f ELSE f + 1

\* max(0, int(round(float(hours) * 60)))
HoursToMinutes(hours) == Max2(0, RoundHalfEven(RatMul(hours, RatInt(60))))

\* workload_by_subject.get(sid, {}).get(key, 0.0)
WorkloadOf(a, sid) ==
    IF sid \in DOMAIN a.workload_by_subject THEN a.workload_by_subject[sid]
    ELSE [hours_base |-> Zero, hours_buffer |-> Zero]

\* A per-subject configuration dictionary without any key.
EmptyConfig ==
    [strategy_mode |-> Absent, concentration_mode |-> Absent,
     human_distribution_mode |-> Absent,
     max_same_subject_streak_days |-> Absent,
     max_same_subject_consecutive_blocks |-> Absent,
     target_daily_subject_variety |-> Absent]

\* (config_by_subject or {}).get(sid, {})
ConfigOf(a, sid) ==
    IF sid \in DOMAIN a.config_by_subject THEN a.config_by_subject[sid] ELSE EmptyConfig

SlotKey(x) == IntKey(<<x.date, x.slot_id>>)
SubjectKey(x) == IntKey(<<x.subject_id>>)

\* Variant: the slots are taken in the order of the input list.
UnorderedSlots(slots) == slots

\* sorted(slots, key=(date, slot_id)) and sorted(subjects, key=subject_id)
OrderSlots(slots) == sorted(slots, SlotKey)
OrderSubjects(subjects) == sorted(subjects, SubjectKey)

_subject_order(subjects, day) ==
    sorted(subjects, LAMBDA x : IntKey(deterministic_tie_breaker_key(x, day)))

\* selected_exam_date, else the earliest exam date, else 9999-12-31.
ExamDayOf(subject) ==
    IF subject.selected_exam_date # NoDate THEN subject.selected_exam_date
    ELSE IF subject.exam_dates # {} THEN MinOfSet(subject.exam_dates)
    ELSE FarDay

_distribution_limits_for_mode(mode) ==
    IF mode = "strict" THEN
        [penalty_multiplier |-> RatInt(2), default_max_streak |-> 2,
         default_max_same_day_blocks |-> 2, min_variety |-> 3]
    ELSE IF mode = "balanced" THEN
        [penalty_multiplier |-> One, default_max_streak |-> 3,
         default_max_same_day_blocks |-> 3, min_variety |-> 2]
    ELSE
        [penalty_multiplier |-> Zero, default_max_streak |-> NoLimit,
         default_max_same_day_blocks |-> NoLimit, min_variety |-> 1]

\* {**global_distribution, **config_by_subject.get(subject_id, {})}[key]
Merged(global_entry, subject_entry) ==
    IF Has(subject_entry) THEN subject_entry ELSE global_entry

_resolve_subject_distribution(subject_id, global_distribution, a) ==
    LET sub == ConfigOf(a, subject_id)
        raw == Lower(Get(Merged(global_distribution.human_distribution_mode,
                                sub.human_distribution_mode), "off"))
        mode == IF raw \in {"off", "balanced", "strict"} THEN raw ELSE "off"
        limits == _distribution_limits_for_mode(mode)
        max_streak ==
            Get(Merged(global_distribution.max_same_subject_streak_days,
                       sub.max_same_subject_streak_days), limits.default_max_streak)
        max_same_day_blocks ==
            Get(Merged(global_distribution.max_same_subject_consecutive_blocks,
                       sub.max_same_subject_consecutive_blocks),
                limits.default_max_same_day_blocks)
        target_variety ==
            Get(Merged(global_distribution.target_daily_subject_variety,
                       sub.target_daily_subject_variety), limits.min_variety)
    IN [mode |-> mode,
        penalty_multiplier |-> limits.penalty_multiplier,
        max_streak_days |-> Max2(1, max_streak),
        max_same_day_blocks |-> Max2(1, max_same_day_blocks),
        target_daily_subject_variety |-> Max2(1, target_variety)]

per_subject_distribution(a, sid) ==
    _resolve_subject_distribution(sid, a.distribution_config, a)

\* str(config_by_subject.get(sid, {}).get("strategy_mode", "hybrid")).lower()
strategy_mode_by_subject(a, sid) == Lower(Get(ConfigOf(a, sid).strategy_mode, "hybrid"))

_normalize_concentration_mode(raw_mode, fallback) ==
    LET mode == Lower(raw_mode)
    IN IF mode \in {"diffuse", "concentrated"} THEN mode ELSE fallback

normalized_global_concentration_mode(a) ==
    _normalize_concentration_mode(a.global_concentration_mode, "diffuse")

\* The explicit concentration mode of a subject: the map entry, else the
\* per-subject configuration entry, else absent (None).
ExplicitConcentrationMode(a, sid) ==
    IF sid \in DOMAIN a.concentration_mode_by_subject
       /\ Has(a.concentration_mode_by_subject[sid])
    THEN a.concentration_mode_by_subject[sid]
    ELSE ConfigOf(a, sid).concentration_mode

per_subject_concentration_mode(a, sid) ==
    LET explicit_mode == ExplicitConcentrationMode(a, sid)
    IN IF ~Has(explicit_mode) THEN normalized_global_concentration_mode(a)
       ELSE _normalize_concentration_mode(Val(explicit_mode),
                                          normalized_global_concentration_mode(a))

concentration_mode_source(a, sid) ==
    IF Has(ExplicitConcentrationMode(a, sid)) THEN "subject" ELSE "global_fallback"

RECURSIVE _current_streak_days(_, _, _)
\* while True: the days before `day` are walked back until the first one on
\* which the subject has no minutes.
_current_streak_days(subject_id, day, minutes_by_day) ==
    IF MinutesOn(minutes_by_day, day - 1, subject_id) > 0
    THEN 1 + _current_streak_days(subject_id, day - 1, minutes_by_day)
    ELSE 0

\* The bonus factors 0.40, 0.45 and 0.15 of the three strategy modes.
StrategyGain == [forward |-> Rat(40, 100), backward |-> Rat(45, 100), hybrid |-> Rat(15, 100)]

\* near_ratio = 1 / (1 + distance), far_ratio = distance / (distance + 2)
StrategyWeightAt(days_to_exam, normalized_mode) ==
    IF normalized_mode = "forward"
    THEN RatAdd(One, RatMul(StrategyGain.forward, Rat(days_to_exam, days_to_exam + 2)))
    ELSE IF normalized_mode = "backward"
    THEN RatAdd(One, RatMul(StrategyGain.backward, Rat(1, 1 + days_to_exam)))
    ELSE RatAdd(One, RatMul(StrategyGain.hybrid, Rat(1, 1 + days_to_exam)))

_strategy_weight(slot_date, exam_day, mode) ==
    StrategyWeightAt(Max2(0, exam_day - slot_date), Lower(mode))

_strategy_rule(mode) ==
    LET normalized_mode == Lower(mode)
    IN IF normalized_mode = "forward" THEN "RULE_STRATEGY_MODE_FORWARD"
       ELSE IF normalized_mode = "backward" THEN "RULE_STRATEGY_MODE_BACKWARD"
       ELSE "RULE_STRATEGY_MODE_HYBRID"

\* 1.03, 0.01 and 0.5: the multiplier, the bias and the penalty factor of
\* the concentrated mode.
Concentrated == [multiplier |-> Rat(103, 100), bias |-> Rat(1, 100), penalty |-> Rat(1, 2)]

_concentration_multiplier(mode) == IF mode = "concentrated" THEN Concentrated.multiplier ELSE One
_concentration_bias(mode) == IF mode = "concentrated" THEN Concentrated.bias ELSE Zero

_concentration_adjusted_features(features, mode) ==
    IF mode = "concentrated"
    THEN [features EXCEPT !.concentration_penalty = RatMul(@, Concentrated.penalty)]
    ELSE features

\* (score_features_by_subject or {}).get(sid, {})
FeaturesOf(a, sid) ==
    IF sid \in DOMAIN a.score_features_by_subject
    THEN a.score_features_by_subject[sid] ELSE NoFeatures

\* dict[key] = value and dict.get(key, default)
DictSet(f, k, v) == (k :> v) @@ f
DictGet(f, k, default) == IF k \in DOMAIN f THEN f[k] ELSE default

RECURSIVE SetToSeq(_)
\* The elements of a set of integers in ascending order.
SetToSeq(S) == IF S = {} THEN <<>> ELSE <<MinOfSet(S)>> \o SetToSeq(S \ {MinOfSet(S)})

SeqToSet(s) == {s[i] : i \in DOMAIN s}

\* {**DEFAULT_CONTINUITY_CONFIG, **continuity_config}
effective_continuity(a) ==
    LET c == a.continuity_config
        d == DEFAULT_CONTINUITY_CONFIG
    IN [enabled |-> Get(c.enabled, d.enabled),
        lookback_days |-> Get(c.lookback_days, d.lookback_days),
        rolling_window_days |-> Get(c.rolling_window_days, d.rolling_window_days),
        streak_threshold_days |-> Get(c.streak_threshold_days, d.streak_threshold_days),
        rolling_share_threshold |-> Get(c.rolling_share_threshold, d.rolling_share_threshold),
        streak_penalty_factor |-> Get(c.streak_penalty_factor, d.streak_penalty_factor),
        rolling_penalty_factor |-> Get(c.rolling_penalty_factor, d.rolling_penalty_factor),
        max_penalty |-> Get(c.max_penalty, d.max_penalty)]

\* The slot the current loop iteration is at.
CurrentSlot(st) == st.ordered_slots[st.slot_idx]

\* Variant: the record is put at the head of the list.
AllocChunkAtHead(subject_id, slot, minutes, bucket, out) ==
    IF minutes <= 0 THEN out
    ELSE <<[slot_id |-> slot.slot_id, date |-> slot.date,
            subject_id |-> subject_id, minutes |-> minutes,
            bucket |-> bucket]>> \o out

\* _alloc_chunk: append a record unless minutes <= 0.
_alloc_chunk(subject_id, slot, minutes, bucket, out) ==
    IF minutes <= 0 THEN out
    ELSE Append(out, [slot_id |-> slot.slot_id, date |-> slot.date,
                      subject_id |-> subject_id, minutes |-> minutes,
                      bucket |-> bucket])

\* day_subject_set[day]: the subjects with registered minutes on that day.
day_subject_set(st, day) ==
    IF day \in DOMAIN st.history_minutes_by_day
    THEN {s \in DOMAIN st.history_minutes_by_day[day] :
              st.history_minutes_by_day[day][s] > 0}
    ELSE {}

Registered(st, day, sid, minutes, day_history, same) ==
    [st EXCEPT
       !.history_minutes_by_day =
           DictSet(@, day, DictSet(day_history, sid, DictGet(day_history, sid, 0) + minutes)),
       !.day_last_subject = IF same THEN @ ELSE DictSet(@, day, sid),
       !.day_consecutive_blocks = DictSet(@, day, IF same THEN DictGet(@, day, 0) + 1 ELSE 1)]

_register_history(st, day, sid, minutes) ==
    IF sid = Slack \/ minutes <= 0 THEN st
    ELSE Registered(st, day, sid, minutes,
                    DictGet(st.history_minutes_by_day, day, <<>>),
                    DictGet(st.day_last_subject, day, NoSubject) = sid)

BlockLimitExceeded(st, sid, day, dist_cfg) ==
    IF dist_cfg.mode = "off" THEN FALSE
    ELSE IF DictGet(st.day_last_subject, day, NoSubject) # sid THEN FALSE
    ELSE DictGet(st.day_consecutive_blocks, day, 0) + 1 > dist_cfg.max_same_day_blocks

_is_same_day_block_limit_exceeded(a, st, sid, day) ==
    BlockLimitExceeded(st, sid, day, per_subject_distribution(a, sid))

\* ---- Phase 1
\* A subject is skipped in Phase 1 when it has no base left or when its
\* distribution mode caps the same-subject day streak it already reached.
StreakCapped(dist_cfg, streak_days) ==
    dist_cfg.mode \in {"balanced", "strict"} /\ streak_days >= dist_cfg.max_streak_days

\* Variant: the cap applies once the streak is past max_streak_days.
P1EligibleLate(a, st, slot, subject) ==
    /\ st.remaining_base[subject.subject_id] > 0
    /\ ~(/\ per_subject_distribution(a, subject.subject_id).mode \in {"balanced", "strict"}
         /\ _current_streak_days(subject.subject_id, slot.date, st.history_minutes_by_day)
              > per_subject_distribution(a, subject.subject_id).max_streak_days)

P1Eligible(a, st, slot, subject) ==
    /\ st.remaining_base[subject.subject_id] > 0
    /\ ~StreakCapped(per_subject_distribution(a, subject.subject_id),
                     _current_streak_days(subject.subject_id, slot.date,
                                          st.history_minutes_by_day))

\* 0.25: the damping of the strategy weight and the scale of the soft penalty.
Quarter == Rat(25, 100)

\* Damping of the strategy weight in Phase 1, for the hybrid mode only.
P1StrategyWeight(strategy_mode, strategy_weight) ==
    IF strategy_mode = "hybrid"
    THEN RatAdd(One, RatMul(RatSub(strategy_weight, One), Quarter))
    ELSE strategy_weight

\* penalty_multiplier * variety_missing * 0.25
SoftPenalty(dist_cfg, unique_subjects_today, sid) ==
    RatMul(RatMul(dist_cfg.penalty_multiplier,
                  RatInt(Max2(0, dist_cfg.target_daily_subject_variety
                                 - Cardinality(unique_subjects_today \cup {sid})))),
           Quarter)

\* (base_score + bias) * strategy_weight * concentration_multiplier
ScoreOf(features, streak_penalty, concentration_mode, strategy_weight) ==
    RatMul(RatMul(RatAdd(compute_score(
                             [_concentration_adjusted_features(features, concentration_mode)
                                EXCEPT !.streak_penalty = streak_penalty]),
                         _concentration_bias(concentration_mode)),
                  strategy_weight),
           _concentration_multiplier(concentration_mode))

P1Score(a, st, slot, subject) ==
    ScoreOf(FeaturesOf(a, subject.subject_id),
            RatAdd(compute_recent_continuity_penalty(subject.subject_id, slot.date,
                                                     st.history_minutes_by_day,
                                                     effective_continuity(a)),
                   SoftPenalty(per_subject_distribution(a, subject.subject_id),
                               day_subject_set(st, slot.date), subject.subject_id)),
            per_subject_concentration_mode(a, subject.subject_id),
            P1StrategyWeight(strategy_mode_by_subject(a, subject.subject_id),
                             _strategy_weight(slot.date,
                                              st.exam_day_by_subject[subject.subject_id],
                                              strategy_mode_by_subject(a, subject.subject_id))))

\* candidates.sort(key=(-score, tie))
CandidateKey(x) == <<RatNeg(x.score)>> \o IntKey(x.tie)

RECURSIVE Scored(_, _, _, _)
\* The (score, tie, subject) tuples of the subjects kept, in their order.
Scored(a, st, slot, kept) ==
    IF kept = <<>> THEN <<>>
    ELSE <<[score |-> P1Score(a, st, slot, Head(kept)),
            tie |-> deterministic_tie_breaker_key(Head(kept), slot.date),
            subject_id |-> Head(kept).subject_id]>>
         \o Scored(a, st, slot, Tail(kept))

P1Candidates(a, st) ==
    sorted(Scored(a, st, CurrentSlot(st),
                  SelectSeq(_subject_order(st.ordered_subjects, CurrentSlot(st).date),
                            LAMBDA s : P1Eligible(a, st, CurrentSlot(st), s))),
           CandidateKey)

\* "if not candidates: break": no subject passes the two skip tests.
P1NoCandidate(a, st) ==
    \A i \in DOMAIN st.ordered_subjects :
        ~P1Eligible(a, st, CurrentSlot(st), st.ordered_subjects[i])

\* The later candidates that do not exceed their same-day block limit.
WithinLimit(a, st, candidates, day) ==
    {i \in 2..Len(candidates) :
        ~_is_same_day_block_limit_exceeded(a, st, candidates[i].subject_id, day)}

\* Variant: the last candidate of the order is selected.
ChooseLast(candidates, top_exceeds, ok) ==
    [subject_id |-> candidates[Len(candidates)].subject_id,
     forced_second_choice |-> FALSE, note |-> "top"]

\* The subject Phase 1 selects: the top candidate, or the first later one that
\* does not exceed its same-day block limit when the top one does.
Choose(candidates, top_exceeds, ok) ==
    IF ~top_exceeds
    THEN [subject_id |-> candidates[1].subject_id,
          forced_second_choice |-> FALSE, note |-> "top"]
    ELSE IF ok # {}
    THEN [subject_id |-> candidates[MinOfSet(ok)].subject_id,
          forced_second_choice |-> TRUE, note |-> "second_choice"]
    ELSE [subject_id |-> candidates[1].subject_id,
          forced_second_choice |-> FALSE, note |-> "exception"]

\* Variant: the top candidate is selected whatever its block count.
P1ChoiceTop(a, st, candidates) == Choose(candidates, FALSE, {})

P1Choice(a, st, candidates) ==
    Choose(candidates,
           _is_same_day_block_limit_exceeded(a, st, candidates[1].subject_id,
                                             CurrentSlot(st).date),
           WithinLimit(a, st, candidates, CurrentSlot(st).date))

\* min(session_minutes, free, remaining)
Chunk(session_minutes, free, remaining) == Min2(session_minutes, Min2(free, remaining))

\* {subject_id: score for ... in candidates}: a later candidate of the same
\* subject overwrites an earlier one.
ScoresBySubject(candidates) ==
    [s \in {candidates[i].subject_id : i \in DOMAIN candidates} |->
        candidates[CHOOSE i \in DOMAIN candidates :
                      /\ candidates[i].subject_id = s
                      /\ \A j \in DOMAIN candidates :
                            candidates[j].subject_id = s => j <= i].score]

\* The item DecisionTraceCollector.record appends; its decision_id and its
\* timestamp are its position in the trace.
TraceEntry(slot_id, candidates, selected, rules, blocked, note, impact) ==
    [slot_id |-> slot_id,
     candidate_subjects |->
        sorted([i \in DOMAIN candidates |-> candidates[i].subject_id],
               LAMBDA x : IntKey(<<x>>)),
     scores_by_subject |-> ScoresBySubject(candidates),
     selected_subject_id |-> selected,
     applied_rules |-> rules,
     blocked_constraints |-> blocked,
     tradeoff_note |-> note,
     confidence_impact |-> impact]

\* The confidence impacts 0.01, 0.005, 0.002 and -0.01 of the four records.
Impact == [base |-> Rat(1, 100), pre_exam |-> Rat(5, 1000), gap |-> Rat(2, 1000),
           slack |-> Rat(-1, 100)]

P1Rules(a, st, choice) ==
    <<"RULE_BASE_BEFORE_BUFFER", "RULE_SCORE_ORDER", "RULE_TIE_BREAK_DETERMINISTIC",
      _strategy_rule(strategy_mode_by_subject(a, choice.subject_id))>>
    \o (IF choice.forced_second_choice THEN <<"RULE_LIMIT_CONSECUTIVE_BLOCKS">> ELSE <<>>)
    \o (IF concentration_mode_source(a, choice.subject_id) = "subject"
        THEN <<"RULE_CONCENTRATION_MODE_PER_SUBJECT">> ELSE <<>>)

\* decision_trace.record(...) when a collector was passed, nothing otherwise.
Record(a, trace, entry) == IF a.decision_trace THEN Append(trace, entry) ELSE trace

\* for slot in ordered_slots: available = int(slot.get("max_minutes", 0))
P1EnterOn(st) == st.pc = "p1" /\ ~st.in_slot /\ st.slot_idx <= Len(st.ordered_slots)
P1EnterTo(st) == [st EXCEPT !.in_slot = TRUE, !.available = CurrentSlot(st).max_minutes]

\* The test of "while available >= session_minutes" holds: the body is entered.
P1TestOn(a, st) ==
    /\ st.pc = "p1" /\ st.in_slot /\ ~st.in_body
    /\ st.available >= a.session_minutes
P1TestTo(st) == [st EXCEPT !.in_body = TRUE]

\* The body of the loop finds a candidate and allocates one chunk to it.
P1AllocOn(a, st) == st.pc = "p1" /\ st.in_body /\ ~P1NoCandidate(a, st)

\* Variant: the remaining base goes down by a whole session.
P1WriteWhole(a, st, slot, candidates, choice, chunk) ==
    _register_history(
        [st EXCEPT
           !.allocations = _alloc_chunk(choice.subject_id, slot, chunk, "base", @),
           !.decision_trace =
               Record(a, @, TraceEntry(slot.slot_id, candidates, choice.subject_id,
                                       P1Rules(a, st, choice), <<>>, choice.note,
                                       Impact.base)),
           !.remaining_base[choice.subject_id] = @ - a.session_minutes,
           !.available = @ - chunk,
           !.in_body = FALSE],
        slot.date, choice.subject_id, chunk)

P1Write(a, st, slot, candidates, choice, chunk) ==
    _register_history(
        [st EXCEPT
           !.allocations = _alloc_chunk(choice.subject_id, slot, chunk, "base", @),
           !.decision_trace =
               Record(a, @, TraceEntry(slot.slot_id, candidates, choice.subject_id,
                                       P1Rules(a, st, choice), <<>>, choice.note,
                                       Impact.base)),
           !.remaining_base[choice.subject_id] = @ - chunk,
           !.available = @ - chunk,
           !.in_body = FALSE],
        slot.date, choice.subject_id, chunk)

P1Chosen(a, st, candidates, choice) ==
    P1Write(a, st, CurrentSlot(st), candidates, choice,
            Chunk(a.session_minutes, st.available, st.remaining_base[choice.subject_id]))

P1Ranked(a, st, candidates) == P1Chosen(a, st, candidates, P1Choice(a, st, candidates))

P1AllocTo(a, st) == P1Ranked(a, st, P1Candidates(a, st))

\* The while loop ends (its test fails, or the body finds no candidate and
\* breaks) and the residual of the slot is stored.
P1SlotEndOn(a, st) ==
    /\ st.pc = "p1" /\ st.in_slot
    /\ IF st.in_body THEN P1NoCandidate(a, st) ELSE st.available < a.session_minutes
\* Variant: the whole max_minutes of the slot is stored as its residual.
P1SlotEndFull(st) ==
    [st EXCEPT !.slack_by_slot = DictSet(@, CurrentSlot(st).slot_id,
                                         CurrentSlot(st).max_minutes),
               !.in_slot = FALSE,
               !.in_body = FALSE,
               !.slot_idx = @ + 1]

P1SlotEndTo(st) ==
    [st EXCEPT !.slack_by_slot = DictSet(@, CurrentSlot(st).slot_id, st.available),
               !.in_slot = FALSE,
               !.in_body = FALSE,
               !.slot_idx = @ + 1]

P1DoneOn(st) == st.pc = "p1" /\ ~st.in_slot /\ st.slot_idx > Len(st.ordered_slots)
P1DoneTo(st) == [st EXCEPT !.pc = "p2", !.slot_idx = 1]

\* ---- Phases 2 and 3
BufferCandidate(a, st, slot, subject) ==
    [score |-> _strategy_weight(slot.date, st.exam_day_by_subject[subject.subject_id],
                                strategy_mode_by_subject(a, subject.subject_id)),
     tie |-> deterministic_tie_breaker_key(subject, slot.date),
     subject_id |-> subject.subject_id]

RECURSIVE Weighted(_, _, _, _)
\* The (strategy_weight, tie, subject) tuples of the subjects kept, in their order.
Weighted(a, st, slot, kept) ==
    IF kept = <<>> THEN <<>>
    ELSE <<BufferCandidate(a, st, slot, Head(kept))>> \o Weighted(a, st, slot, Tail(kept))

BufferCandidates(a, st, slot, Eligible(_)) ==
    sorted(Weighted(a, st, slot,
                    SelectSeq(_subject_order(st.ordered_subjects, slot.date), Eligible)),
           CandidateKey)

\* Variant: Phase 2 does not skip the subjects with base minutes left.
P2AnyBase(st, slot, subject) ==
    /\ ~(st.remaining_buffer[subject.subject_id] <= 0)
    /\ ~(slot.date > st.exam_day_by_subject[subject.subject_id])

P2Eligible(st, slot, subject) ==
    /\ ~(st.remaining_base[subject.subject_id] > 0)
    /\ ~(st.remaining_buffer[subject.subject_id] <= 0)
    /\ ~(slot.date > st.exam_day_by_subject[subject.subject_id])

P2Candidates(a, st, slot) ==
    BufferCandidates(a, st, slot, LAMBDA s : P2Eligible(st, slot, s))

P3Eligible(a, st, free_minutes, subject) ==
    /\ ~(st.remaining_base[subject.subject_id] > 0)
    /\ ~(st.remaining_buffer[subject.subject_id] <= 0 \/ free_minutes < a.session_minutes)

P3Candidates(a, st, slot, free_minutes) ==
    BufferCandidates(a, st, slot, LAMBDA s : P3Eligible(a, st, free_minutes, s))

BufferRules(a, sid, first) ==
    <<first, "RULE_BASE_BEFORE_BUFFER", _strategy_rule(strategy_mode_by_subject(a, sid))>>

\* One buffer chunk for the candidate at cand_idx (shared by Phases 2 and 3).
BufferWrite(a, st, slot, sid, chunk, first_rule, note, impact) ==
    _register_history(
        [st EXCEPT
           !.allocations = _alloc_chunk(sid, slot, chunk, "buffer", @),
           !.decision_trace =
               Record(a, @, TraceEntry(slot.slot_id, st.candidates, sid,
                                       BufferRules(a, sid, first_rule), <<>>,
                                       note, impact)),
           !.remaining_buffer[sid] = @ - chunk,
           !.free_minutes = @ - chunk,
           !.cand_idx = @ + 1],
        slot.date, sid, chunk)

BufferAllocTo(a, st, first_rule, note, impact) ==
    BufferWrite(a, st, CurrentSlot(st), st.candidates[st.cand_idx].subject_id,
                Chunk(a.session_minutes, st.free_minutes,
                      st.remaining_buffer[st.candidates[st.cand_idx].subject_id]),
                first_rule, note, impact)

AtSlot(st, pc) == st.pc = pc /\ ~st.in_slot /\ st.slot_idx <= Len(st.ordered_slots)
SlackOf(st) == DictGet(st.slack_by_slot, CurrentSlot(st).slot_id, 0)

\* if free_minutes < session_minutes: continue
P2SkipOn(a, st) == AtSlot(st, "p2") /\ SlackOf(st) < a.session_minutes
P2SkipTo(st) == [st EXCEPT !.slot_idx = @ + 1]

P2EnterOn(a, st) == AtSlot(st, "p2") /\ ~(SlackOf(st) < a.session_minutes)
P2EnterTo(a, st) ==
    [st EXCEPT !.in_slot = TRUE,
               !.free_minutes = SlackOf(st),
               !.candidates = P2Candidates(a, st, CurrentSlot(st)),
               !.cand_idx = 1]

P2AllocOn(a, st) ==
    /\ st.pc = "p2" /\ st.in_slot
    /\ st.cand_idx <= Len(st.candidates)
    /\ ~(st.free_minutes < a.session_minutes)
P2AllocTo(a, st) ==
    BufferAllocTo(a, st, "RULE_PRE_EXAM_BUFFER", "pre_exam_buffer", Impact.pre_exam)

\* The candidate loop is exhausted or broken; the residual is stored.
P2SlotEndOn(a, st) ==
    /\ st.pc = "p2" /\ st.in_slot
    /\ (st.cand_idx > Len(st.candidates) \/ st.free_minutes < a.session_minutes)
\* Variant: the residual of the slot is not stored after Phase 2.
P2SlotEndKept(st) ==
    [st EXCEPT !.in_slot = FALSE,
               !.slot_idx = @ + 1]

P2SlotEndTo(st) ==
    [st EXCEPT !.slack_by_slot = DictSet(@, CurrentSlot(st).slot_id, st.free_minutes),
               !.in_slot = FALSE,
               !.slot_idx = @ + 1]

P2DoneOn(st) == st.pc = "p2" /\ ~st.in_slot /\ st.slot_idx > Len(st.ordered_slots)
P2DoneTo(st) == [st EXCEPT !.pc = "p3", !.slot_idx = 1]

\* if free_minutes <= 0: continue
P3SkipOn(st) == AtSlot(st, "p3") /\ SlackOf(st) <= 0
P3SkipTo(st) == [st EXCEPT !.slot_idx = @ + 1]

P3EnterOn(st) == AtSlot(st, "p3") /\ ~(SlackOf(st) <= 0)
P3EnterTo(a, st) ==
    [st EXCEPT !.in_slot = TRUE,
               !.free_minutes = SlackOf(st),
               !.candidates = P3Candidates(a, st, CurrentSlot(st), SlackOf(st)),
               !.cand_idx = 1]

P3AllocOn(a, st) ==
    /\ st.pc = "p3" /\ st.in_slot
    /\ st.cand_idx <= Len(st.candidates)
    /\ ~(st.free_minutes < a.session_minutes)
P3AllocTo(a, st) ==
    BufferAllocTo(a, st, "RULE_GAP_FILL_BUFFER", "gap_fill_buffer", Impact.gap)

\* if free_minutes < session_minutes: continue
P3PassOn(a, st) ==
    /\ st.pc = "p3" /\ st.in_slot
    /\ st.cand_idx <= Len(st.candidates)
    /\ st.free_minutes < a.session_minutes
P3PassTo(st) == [st EXCEPT !.cand_idx = @ + 1]

\* After the candidates: what is left of the slot becomes an explicit slack record.
P3SlotEndOn(st) == st.pc = "p3" /\ st.in_slot /\ st.cand_idx > Len(st.candidates)
SlackWrite(a, st, slot) ==
    [st EXCEPT
       !.allocations = _alloc_chunk(Slack, slot, st.free_minutes, "slack", @),
       !.decision_trace =
           Record(a, @, TraceEntry(slot.slot_id, <<>>, Slack, <<"RULE_GAP_FILL_SLACK">>,
                                   <<"NO_ELIGIBLE_SUBJECT">>, "explicit_slack",
                                   Impact.slack)),
       !.in_slot = FALSE,
       !.slot_idx = @ + 1]

P3SlotEndTo(a, st) ==
    IF st.free_minutes > 0 THEN SlackWrite(a, st, CurrentSlot(st))
    ELSE [st EXCEPT !.in_slot = FALSE, !.slot_idx = @ + 1]

P3DoneOn(st) == st.pc = "p3" /\ ~st.in_slot /\ st.slot_idx > Len(st.ordered_slots)
P3DoneTo(st) == [st EXCEPT !.pc = "done"]

\* ---- allocate_plan as a state machine
\* The locals before the first statement of the call.
NotStarted ==
    [pc |-> "start", ordered_slots |-> <<>>, ordered_subjects |-> <<>>,
     remaining_base |-> <<>>, remaining_buffer |-> <<>>, exam_day_by_subject |-> <<>>,
     allocations |-> <<>>, slack_by_slot |-> <<>>, history_minutes_by_day |-> <<>>,
     day_last_subject |-> <<>>, day_consecutive_blocks |-> <<>>,
     slot_idx |-> 1, in_slot |-> FALSE, in_body |-> FALSE, available |-> 0, free_minutes |-> 0,
     candidates |-> <<>>, cand_idx |-> 1, decision_trace |-> <<>>]

\* The sorts and the per-subject dictionaries built before Phase 1.
FirstWithId(ordered_subjects, s) ==
    ordered_subjects[CHOOSE i \in DOMAIN ordered_subjects :
                        /\ ordered_subjects[i].subject_id = s
                        /\ \A j \in DOMAIN ordered_subjects :
                              ordered_subjects[j].subject_id = s => j <= i]

Prepared(a, st, ordered_subjects, sids) ==
    [st EXCEPT
       !.pc = "p1",
       !.ordered_slots = OrderSlots(a.slots),
       !.ordered_subjects = ordered_subjects,
       !.remaining_base = [s \in sids |-> HoursToMinutes(WorkloadOf(a, s).hours_base)],
       !.remaining_buffer = [s \in sids |-> HoursToMinutes(WorkloadOf(a, s).hours_buffer)],
       !.exam_day_by_subject = [s \in sids |-> ExamDayOf(FirstWithId(ordered_subjects, s))]]

BeginTo(a, st) ==
    Prepared(a, st, OrderSubjects(a.subjects),
             {a.subjects[i].subject_id : i \in DOMAIN a.subjects})

\* One step of the call from the locals st: the statement the call is at.
AllocStep(a, st) ==
    CASE st.pc = "start" -> BeginTo(a, st)
      [] P1EnterOn(st) -> P1EnterTo(st)
      [] P1TestOn(a, st) -> P1TestTo(st)
      [] P1AllocOn(a, st) -> P1AllocTo(a, st)
      [] P1SlotEndOn(a, st) -> P1SlotEndTo(st)
      [] P1DoneOn(st) -> P1DoneTo(st)
      [] P2SkipOn(a, st) -> P2SkipTo(st)
      [] P2EnterOn(a, st) -> P2EnterTo(a, st)
      [] P2AllocOn(a, st) -> P2AllocTo(a, st)
      [] P2SlotEndOn(a, st) -> P2SlotEndTo(st)
      [] P2DoneOn(st) -> P2DoneTo(st)
      [] P3SkipOn(st) -> P3SkipTo(st)
      [] P3EnterOn(st) -> P3EnterTo(a, st)
      [] P3AllocOn(a, st) -> P3AllocTo(a, st)
      [] P3PassOn(a, st) -> P3PassTo(st)
      [] P3SlotEndOn(st) -> P3SlotEndTo(a, st)
      [] P3DoneOn(st) -> P3DoneTo(st)
      [] OTHER -> st

RECURSIVE AllocRun(_, _, _)
\* The locals after at most `fuel` further steps of the call.
AllocRun(a, st, fuel) ==
    IF st.pc = "done" \/ fuel = 0 THEN st ELSE AllocRun(a, AllocStep(a, st), fuel - 1)

\* What the call returns.
AllocResult(st) ==
    [allocations |-> st.allocations,
     remaining_base_minutes |-> st.remaining_base,
     remaining_buffer_minutes |-> st.remaining_buffer]

P1Enter == P1EnterOn(alloc) /\ alloc' = P1EnterTo(alloc) /\ UNCHANGED <<args, reb>>
P1Test == P1TestOn(args, alloc) /\ alloc' = P1TestTo(alloc) /\ UNCHANGED <<args, reb>>
P1Alloc == P1AllocOn(args, alloc) /\ alloc' = P1AllocTo(args, alloc) /\ UNCHANGED <<args, reb>>
P1SlotEnd == P1SlotEndOn(args, alloc) /\ alloc' = P1SlotEndTo(alloc) /\ UNCHANGED <<args, reb>>
P1Done == P1DoneOn(alloc) /\ alloc' = P1DoneTo(alloc) /\ UNCHANGED <<args, reb>>
P2Skip == P2SkipOn(args, alloc) /\ alloc' = P2SkipTo(alloc) /\ UNCHANGED <<args, reb>>
P2Enter == P2EnterOn(args, alloc) /\ alloc' = P2EnterTo(args, alloc) /\ UNCHANGED <<args, reb>>
P2Alloc == P2AllocOn(args, alloc) /\ alloc' = P2AllocTo(args, alloc) /\ UNCHANGED <<args, reb>>
P2SlotEnd == P2SlotEndOn(args, alloc) /\ alloc' = P2SlotEndTo(alloc) /\ UNCHANGED <<args, reb>>
P2Done == P2DoneOn(alloc) /\ alloc' = P2DoneTo(alloc) /\ UNCHANGED <<args, reb>>
P3Skip == P3SkipOn(alloc) /\ alloc' = P3SkipTo(alloc) /\ UNCHANGED <<args, reb>>
P3Enter == P3EnterOn(alloc) /\ alloc' = P3EnterTo(args, alloc) /\ UNCHANGED <<args, reb>>
P3Alloc == P3AllocOn(args, alloc) /\ alloc' = P3AllocTo(args, alloc) /\ UNCHANGED <<args, reb>>
P3Pass == P3PassOn(args, alloc) /\ alloc' = P3PassTo(alloc) /\ UNCHANGED <<args, reb>>
P3SlotEnd == P3SlotEndOn(alloc) /\ alloc' = P3SlotEndTo(args, alloc) /\ UNCHANGED <<args, reb>>
P3Done == P3DoneOn(alloc) /\ alloc' = P3DoneTo(alloc) /\ UNCHANGED <<args, reb>>

vars == <<args, alloc, reb>>

\* ---- inputs of allocate_plan
\* Lists of slots with the distinct slot_ids 1..NumSlots, of any dates.
SlotLists ==
    {s \in [1..NumSlots -> [slot_id : 1..NumSlots, date : Days, max_minutes : 1..MaxCap]] :
        \A i \in 1..NumSlots : s[i].slot_id = i}

SubjectRecords ==
    [subject_id : 1..NumSubjects, exam_dates : {{e} : e \in Days},
     selected_exam_date : {NoDate}, priority : {1},
     start_at : {NoDate}, end_by : {NoDate}]
\* Lists of subjects with distinct subject_ids, in any order.
SubjectLists ==
    {s \in [1..NumSubjects -> SubjectRecords] :
        \A i, j \in 1..NumSubjects : i # j => s[i].subject_id # s[j].subject_id}

\* Workload hours: 0, and 2..MaxWork half-minutes (1.5 minutes rounds to 2).
BaseHours == {Rat(k, 120) : k \in {0} \cup 2..MaxWork}
BufferHours == {Rat(k, 120) : k \in {0, 2}}
Workloads == [1..NumSubjects -> [hours_base : BaseHours, hours_buffer : BufferHours]]

\* session_minutes: zero included.
Sessions == 0..MaxCap

NoContinuityConfig ==
    [enabled |-> Absent, lookback_days |-> Absent, rolling_window_days |-> Absent,
     streak_threshold_days |-> Absent, rolling_share_threshold |-> Absent,
     streak_penalty_factor |-> Absent, rolling_penalty_factor |-> Absent,
     max_penalty |-> Absent]

NoDistributionConfig ==
    [human_distribution_mode |-> Absent, max_same_subject_streak_days |-> Absent,
     max_same_subject_consecutive_blocks |-> Absent,
     target_daily_subject_variety |-> Absent]

Idle == [pc |-> "idle"]

\* A collector is passed; with session_minutes = 0 None is, so that the locals
\* of the call stay within a finite set.
TraceOptions(session_minutes) == IF session_minutes = 0 THEN {FALSE} ELSE {TRUE}

\* distribution_config: absent, or strict with a same-subject streak of one day.
StrictOneDay ==
    [human_distribution_mode |-> {"strict"}, max_same_subject_streak_days |-> {1},
     max_same_subject_consecutive_blocks |-> Absent,
     target_daily_subject_variety |-> Absent]
Distributions == {NoDistributionConfig, StrictOneDay}

\* The calls explored: the optional arguments other than distribution_config
\* and decision_trace are left at their defaults.
Calls ==
    {c \in [slots : SlotLists, subjects : SubjectLists,
            workload_by_subject : Workloads, session_minutes : Sessions,
            score_features_by_subject : {<<>>},
            continuity_config : {NoContinuityConfig},
            distribution_config : Distributions,
            config_by_subject : {<<>>},
            concentration_mode_by_subject : {<<>>},
            global_concentration_mode : {"diffuse"},
            decision_trace : BOOLEAN] :
        c.decision_trace \in TraceOptions(c.session_minutes)}

\* Before the call: no arguments yet (those of a call without slots and
\* subjects stand for them), the locals not set.
NoCall ==
    [slots |-> <<>>, subjects |-> <<>>, workload_by_subject |-> <<>>,
     session_minutes |-> 1, score_features_by_subject |-> <<>>,
     continuity_config |-> NoContinuityConfig,
     distribution_config |-> NoDistributionConfig,
     config_by_subject |-> <<>>, concentration_mode_by_subject |-> <<>>,
     global_concentration_mode |-> "diffuse", decision_trace |-> FALSE]

Init == args = NoCall /\ alloc = NotStarted /\ reb = Idle

\* allocate_plan is called: the arguments are bound and the code before
\* Phase 1 runs.
Begin ==
    /\ alloc.pc = "start"
    /\ args' \in Calls
    /\ alloc' = BeginTo(args', alloc)
    /\ UNCHANGED reb

Next ==
    \/ Begin
    \/ P1Enter \/ P1Test \/ P1Alloc \/ P1SlotEnd \/ P1Done
    \/ P2Skip \/ P2Enter \/ P2Alloc \/ P2SlotEnd \/ P2Done
    \/ P3Skip \/ P3Enter \/ P3Alloc \/ P3Pass \/ P3SlotEnd \/ P3Done

Spec == Init /\ [][Next]_vars

\* ---- allocate_plan run to its end
\* The calls with the lists in sorted order, one slot per day, every exam on
\* the first day and the same workload for every subject.
PlainCalls ==
    {c \in Calls :
        /\ \A i \in DOMAIN c.slots : c.slots[i].date = Min2(i, MaxDay)
        /\ \A i \in DOMAIN c.subjects :
              /\ c.subjects[i].subject_id = i
              /\ c.subjects[i].exam_dates = {1}
              /\ c.workload_by_subject[i] = c.workload_by_subject[1]}

BeginPlain ==
    /\ alloc.pc = "start"
    /\ args' \in PlainCalls
    /\ alloc' = BeginTo(args', alloc)
    /\ UNCHANGED reb

NextPlain ==
    \/ BeginPlain
    \/ P1Enter \/ P1Test \/ P1Alloc \/ P1SlotEnd \/ P1Done
    \/ P2Skip \/ P2Enter \/ P2Alloc \/ P2SlotEnd \/ P2Done
    \/ P3Skip \/ P3Enter \/ P3Alloc \/ P3Pass \/ P3SlotEnd \/ P3Done

\* The steps that only move the position of the call, and the steps that
\* compute candidates or write records.
Moves == P1Enter \/ P1Test \/ P1Done \/ P2Skip \/ P2SlotEnd \/ P2Done
             \/ P3Skip \/ P3Pass \/ P3Done
Writes == BeginPlain \/ P1Alloc \/ P1SlotEnd \/ P2Enter \/ P2Alloc
              \/ P3Enter \/ P3Alloc \/ P3SlotEnd
\* Writes is enabled exactly when the guard of one of its steps holds: each
\* of them changes the position of the call.
WritesOn ==
    \/ alloc.pc = "start"
    \/ P1AllocOn(args, alloc) \/ P1SlotEndOn(args, alloc)
    \/ P2EnterOn(args, alloc) \/ P2AllocOn(args, alloc)
    \/ P3EnterOn(alloc) \/ P3AllocOn(args, alloc) \/ P3SlotEndOn(alloc)

\* The interpreter runs the call on: a step that can be taken is taken.  The
\* weak fairness of Writes is written out with WritesOn for ENABLED.
SpecRun ==
    /\ Init /\ [][NextPlain]_vars
    /\ WF_vars(Moves)
    /\ ([]<>~WritesOn \/ []<><<Writes>>_vars)

\* ================================================ rebalance_allocations
\* A slot_id that starts with "manual-" is a negative integer.
Manual(slot_id) == slot_id < 0

\* sid in {"", "__slack__"}: the records the rebalancer passes over.
NonSlack(allocation) == allocation.subject_id # Slack

\* min(dates) over the dates that are not None; None when there is none.
Earliest(dates) ==
    IF dates \ {NoDate} = {} THEN NoDate ELSE MinOfSet(dates \ {NoDate})

NoWindow == [start_at |-> NoDate, end_by |-> NoDate, exam_date |-> NoDate]

\* The window of one subject: end_by is capped by the earliest exam date.
WindowOf(subject, exam_date) ==
    [start_at |-> subject.start_at,
     end_by |-> Earliest({subject.end_by, exam_date}),
     exam_date |-> exam_date]

SubjectIds(subjects) == {subjects[i].subject_id : i \in DOMAIN subjects}

\* The last subject of the list with the given id: it overwrites the others.
LastWithId(subjects, sid) ==
    subjects[CHOOSE i \in DOMAIN subjects :
                /\ subjects[i].subject_id = sid
                /\ \A j \in DOMAIN subjects : subjects[j].subject_id = sid => j <= i]

RECURSIVE WindowsOver(_, _)
WindowsOver(subjects, sids) ==
    IF sids = {} THEN <<>>
    ELSE DictSet(WindowsOver(subjects, sids \ {MinOfSet(sids)}), MinOfSet(sids),
                 WindowOf(LastWithId(subjects, MinOfSet(sids)),
                          Earliest(LastWithId(subjects, MinOfSet(sids)).exam_dates
                                   \cup {LastWithId(subjects, MinOfSet(sids)).selected_exam_date})))

_subject_windows(subjects) == WindowsOver(subjects, SubjectIds(subjects))

\* windows.get(sid, {})
WindowGet(windows, sid) == DictGet(windows, sid, NoWindow)

\* The test without the pinned flag.
ImmutableUnlessPinned(allocation, locked_slot_ids, locked_dates, past_cutoff) ==
    \/ allocation.slot_id \in locked_slot_ids
    \/ allocation.date \in locked_dates
    \/ allocation.bucket = "manual_locked"
    \/ Manual(allocation.slot_id)
    \/ allocation.locked_by_user
    \/ (past_cutoff # NoDate /\ allocation.date < past_cutoff)

_is_immutable(allocation, locked_slot_ids, locked_dates, past_cutoff) ==
    \/ allocation.slot_id \in locked_slot_ids
    \/ allocation.date \in locked_dates
    \/ allocation.bucket = "manual_locked"
    \/ Manual(allocation.slot_id)
    \/ allocation.locked_by_user
    \/ allocation.pinned
    \/ (past_cutoff # NoDate /\ allocation.date < past_cutoff)

AllowedAdd(allowed, slot) ==
    DictSet(allowed, slot.date,
            DictGet(allowed, slot.date, 0)
            + Max2(0, slot.cap_minutes) + Max2(0, slot.tolerance_minutes))

RECURSIVE _allowed_by_day(_)
_allowed_by_day(slots) ==
    IF slots = <<>> THEN <<>>
    ELSE AllowedAdd(_allowed_by_day(SubSeq(slots, 1, Len(slots) - 1)), slots[Len(slots)])

\* The violations one record counts against the window of its subject.
WindowViolations(window, day) ==
    (IF window.start_at # NoDate /\ day < window.start_at THEN 1 ELSE 0)
    + (IF window.end_by # NoDate /\ day > window.end_by THEN 1 ELSE 0)
    + (IF window.exam_date # NoDate /\ day > window.exam_date THEN 1 ELSE 0)

RECURSIVE RecordViolations(_, _)
RecordViolations(allocations, windows) ==
    IF allocations = <<>> THEN 0
    ELSE (IF NonSlack(Head(allocations))
          THEN WindowViolations(WindowGet(windows, Head(allocations).subject_id),
                                Head(allocations).date)
          ELSE 0)
         + RecordViolations(Tail(allocations), windows)

RECURSIVE UsedOn(_, _)
\* used_by_day[day]
UsedOn(allocations, day) ==
    IF allocations = <<>> THEN 0
    ELSE (IF NonSlack(Head(allocations)) /\ Head(allocations).date = day
          THEN Max2(0, Head(allocations).minutes) ELSE 0)
         + UsedOn(Tail(allocations), day)

\* The keys of used_by_day and of per_day_subjects.
StudyDays(allocations) ==
    {allocations[i].date : i \in {j \in DOMAIN allocations : NonSlack(allocations[j])}}

OverDays(allocations, allowed) ==
    Cardinality({day \in StudyDays(allocations) :
                    UsedOn(allocations, day) > DictGet(allowed, day, 0)})

_feasibility_score(allocations, allowed_minutes_by_day, subject_windows) ==
    Rat(1, 1 + RecordViolations(allocations, subject_windows)
             + OverDays(allocations, allowed_minutes_by_day))

\* per_day_subjects[day]
SubjectsOn(allocations, day) ==
    {allocations[i].subject_id :
        i \in {j \in DOMAIN allocations :
                  NonSlack(allocations[j]) /\ allocations[j].date = day}}

\* Variant: one subject more than the limit is let through.
RespectsWithOneMore(allocations, max_subjects_per_day) ==
    \A day \in StudyDays(allocations) :
        Cardinality(SubjectsOn(allocations, day)) <= max_subjects_per_day + 1

_respects_max_subjects_per_day(allocations, max_subjects_per_day) ==
    \A day \in StudyDays(allocations) :
        Cardinality(SubjectsOn(allocations, day)) <= max_subjects_per_day

\* ---- planner.metrics.collector.compute_humanity_metrics
\* The minutes of a subject on a day.
SubjectMinutesOn(allocations, day, sid) ==
    MinutesWhere(LAMBDA r : r.date = day /\ r.subject_id = sid, allocations)

\* The subject a day is dominated by: the one with the most minutes, the
\* smallest id among equals.
Dominant(allocations, day) ==
    CHOOSE s \in SubjectsOn(allocations, day) :
        \A t \in SubjectsOn(allocations, day) :
            \/ SubjectMinutesOn(allocations, day, s) > SubjectMinutesOn(allocations, day, t)
            \/ /\ SubjectMinutesOn(allocations, day, s) = SubjectMinutesOn(allocations, day, t)
               /\ s <= t

\* Days first .. first + length - 1 are study days dominated by one subject.
SameSubjectRun(allocations, days, first, length) ==
    \A k \in 0..(length - 1) :
        /\ first + k \in days
        /\ Dominant(allocations, first + k) = Dominant(allocations, first)

MaxOfSet(S) == CHOOSE x \in S : \A y \in S : x >= y

\* The share of the study days with a single subject.
MonoDayRatio(allocations, days) ==
    Rat(Cardinality({day \in days : Cardinality(SubjectsOn(allocations, day)) = 1}),
        Cardinality(days))

\* The longest run of consecutive days dominated by the same subject.
MaxSameSubjectStreak(allocations, days) ==
    MaxOfSet({length \in 1..Cardinality(days) :
                 \E first \in days : SameSubjectRun(allocations, days, first, length)})

\* The mean over the study days of the share of the plan's subjects the day
\* holds.
SubjectVariety(allocations, days, subjects) ==
    Rat(SumOver([day \in days |-> Cardinality(SubjectsOn(allocations, day))], days),
        Cardinality(days) * Cardinality(subjects))

compute_humanity_metrics(allocations) ==
    IF StudyDays(allocations) = {}
    THEN [mono_day_ratio |-> Zero, max_same_subject_streak_days |-> 0,
          subject_variety_index |-> Zero]
    ELSE [mono_day_ratio |-> MonoDayRatio(allocations, StudyDays(allocations)),
          max_same_subject_streak_days |->
              MaxSameSubjectStreak(allocations, StudyDays(allocations)),
          subject_variety_index |->
              SubjectVariety(allocations, StudyDays(allocations),
                             UNION {SubjectsOn(allocations, day) :
                                       day \in StudyDays(allocations)})]

\* ---- rebalance_allocations, continued
HumanityOf(metrics) ==
    [mono_day_ratio |-> metrics.mono_day_ratio,
     streak_days |-> RatInt(metrics.max_same_subject_streak_days),
     subject_variety |-> metrics.subject_variety_index]

_humanity_vector(allocations) == HumanityOf(compute_humanity_metrics(allocations))

\* The components that did not get worse, a tie counting as an improvement.
HumanityNotWorse(before, after) ==
    (IF RatLe(after.mono_day_ratio, before.mono_day_ratio)
     THEN <<"mono_day_ratio">> ELSE <<>>)
    \o (IF RatLe(after.streak_days, before.streak_days)
        THEN <<"streak_days">> ELSE <<>>)
    \o (IF RatLe(before.subject_variety, after.subject_variety)
        THEN <<"subject_variety">> ELSE <<>>)

\* The names of the improved components, in the order they are joined.
_humanity_improves(before, after) ==
    (IF RatLt(after.mono_day_ratio, before.mono_day_ratio)
     THEN <<"mono_day_ratio">> ELSE <<>>)
    \o (IF RatLt(after.streak_days, before.streak_days)
        THEN <<"streak_days">> ELSE <<>>)
    \o (IF RatLt(before.subject_variety, after.subject_variety)
        THEN <<"subject_variety">> ELSE <<>>)

RECURSIVE ModesOver(_, _, _)
ModesOver(a, default_mode, sids) ==
    IF sids = {} THEN <<>>
    ELSE DictSet(ModesOver(a, default_mode, sids \ {MinOfSet(sids)}), MinOfSet(sids),
                 Lower(Get(ConfigOf(a, MinOfSet(sids)).strategy_mode, default_mode)))

_strategy_mode_by_subject(a) ==
    ModesOver(a, Lower(Get(a.global_config.default_strategy_mode, "hybrid")),
              SubjectIds(a.subjects))

\* int(global_config.get(key, default) or default): a configured 0 is
\* replaced by the default.
OrDefault(opt, default) ==
    IF opt = {} THEN default ELSE IF Val(opt) = 0 THEN default ELSE Val(opt)

NoSubjectLimit == 1000000000

max_subjects_per_day(a) ==
    Max2(1, OrDefault(a.global_config.max_subjects_per_day, NoSubjectLimit))
configured_max_swaps(a) == OrDefault(a.global_config.rebalance_max_swaps, a.max_swaps)
configured_max_iterations(a) ==
    OrDefault(a.global_config.rebalance_max_iterations, configured_max_swaps(a))
max_swaps(a) == Max2(0, Min2(a.max_swaps, configured_max_swaps(a)))
max_iterations(a) == Max2(0, configured_max_iterations(a))
near_days_window(a) ==
    Max2(0, OrDefault(a.global_config.rebalance_near_days_window, a.near_days_window))

locked_slot_ids(a) ==
    {a.locked_allocations[i].slot_id : i \in DOMAIN a.locked_allocations}
locked_dates(a) ==
    {a.locked_allocations[i].date :
        i \in {j \in DOMAIN a.locked_allocations : Manual(a.locked_allocations[j].slot_id)}}

\* _is_immutable with the locked sets the call has computed.
Immutable(a, st, allocation) ==
    _is_immutable(allocation, st.locked_slot_ids, st.locked_dates, a.past_cutoff)

\* The window tests without those of end_by and of the exam date.
InWindowFromStart(window, day) ==
    ~(window.start_at # NoDate /\ day < window.start_at)

\* The window tests on the date a subject would move to.
InWindow(window, day) ==
    /\ ~(window.start_at # NoDate /\ day < window.start_at)
    /\ ~(window.end_by # NoDate /\ day > window.end_by)
    /\ ~(window.exam_date # NoDate /\ day > window.exam_date)

\* The tests a pair of records passes to become a candidate.
Eligible(a, st, alloc_a, alloc_b) ==
    /\ NonSlack(alloc_a)
    /\ ~Immutable(a, st, alloc_a)
    /\ NonSlack(alloc_b)
    /\ alloc_a.subject_id # alloc_b.subject_id
    /\ DictGet(st.strategy_modes, alloc_a.subject_id, "hybrid")
         = DictGet(st.strategy_modes, alloc_b.subject_id, "hybrid")
    /\ ~Immutable(a, st, alloc_b)
    /\ Abs(alloc_a.date - alloc_b.date) <= st.near_days_window
    /\ alloc_a.bucket = alloc_b.bucket
    /\ InWindow(WindowGet(st.windows, alloc_a.subject_id), alloc_b.date)
    /\ InWindow(WindowGet(st.windows, alloc_b.subject_id), alloc_a.date)

RECURSIVE PairsFrom(_, _, _)
\* The index pairs <<idx_a, idx_b>>, idx_a < idx_b <= n, in the order the two
\* loops visit them.
PairsFrom(idx_a, idx_b, n) ==
    IF idx_a >= n THEN <<>>
    ELSE IF idx_b > n THEN PairsFrom(idx_a + 1, idx_a + 2, n)
    ELSE <<<<idx_a, idx_b>>>> \o PairsFrom(idx_a, idx_b + 1, n)

PairKey(working, pair) ==
    IntKey(<<working[pair[1]].date, working[pair[1]].subject_id, working[pair[1]].slot_id,
             working[pair[2]].date, working[pair[2]].subject_id, working[pair[2]].slot_id>>)

\* Variant: only the pairs of neighbours in the list are candidates.
AdjacentCandidates(a, st) ==
    sorted(SelectSeq(PairsFrom(1, 2, Len(st.working)),
                     LAMBDA pair : /\ pair[2] = pair[1] + 1
                                   /\ Eligible(a, st, st.working[pair[1]],
                                               st.working[pair[2]])),
           LAMBDA pair : PairKey(st.working, pair))

\* sorted(candidates, key=lambda x: x[0]), as index pairs.
Candidates(a, st) ==
    sorted(SelectSeq(PairsFrom(1, 2, Len(st.working)),
                     LAMBDA pair : Eligible(a, st, st.working[pair[1]], st.working[pair[2]])),
           LAMBDA pair : PairKey(st.working, pair))

\* The exchange that writes one of the two subject_ids only.
ProposalOneWay(working, idx_a, idx_b) ==
    [working EXCEPT ![idx_a].subject_id = working[idx_b].subject_id]

\* The proposal: a copy of working with the two subject_ids exchanged.
Proposal(working, idx_a, idx_b) ==
    [working EXCEPT ![idx_a].subject_id = working[idx_b].subject_id,
                    ![idx_b].subject_id = working[idx_a].subject_id]

\* proposal_feasibility + feasibility_regression_tolerance < base_feasibility
Regresses(proposal_feasibility, tolerance, base_feasibility) ==
    RatLt(RatAdd(proposal_feasibility, tolerance), base_feasibility)

\* The three tests of a proposal: none of them says continue.
ProposalOk(a, st, base_feasibility, before_h, proposal) ==
    /\ _respects_max_subjects_per_day(proposal, st.max_subjects_per_day)
    /\ ~Regresses(_feasibility_score(proposal, st.allowed, st.windows),
                  a.feasibility_regression_tolerance, base_feasibility)
    /\ _humanity_improves(before_h, _humanity_vector(proposal)) # <<>>

NoPair == <<>>

RECURSIVE FirstOk(_, _, _, _, _)
\* The first candidate whose proposal passes, NoPair when none does.
FirstOk(a, st, base_feasibility, before_h, candidates) ==
    IF candidates = <<>> THEN NoPair
    ELSE IF ProposalOk(a, st, base_feasibility, before_h,
                       Proposal(st.working, Head(candidates)[1], Head(candidates)[2]))
    THEN Head(candidates)
    ELSE FirstOk(a, st, base_feasibility, before_h, Tail(candidates))

\* The swap found without the window tests and the feasibility test.
AnyImproving(a, st) ==
    FirstOk([a EXCEPT !.feasibility_regression_tolerance = One],
            [st EXCEPT !.windows = <<>>],
            _feasibility_score(st.working, st.allowed, st.windows),
            _humanity_vector(st.working),
            Candidates(a, [st EXCEPT !.windows = <<>>]))

\* The swap one iteration of the loop accepts, NoPair when it accepts none.
Accepted(a, st) ==
    FirstOk(a, st, _feasibility_score(st.working, st.allowed, st.windows),
            _humanity_vector(st.working), Candidates(a, st))

\* f"{x:.3f}"
Fixed3(x) == Rat(RoundHalfEven(RatMul(x, RatInt(1000))), 1000)

SwapImpact(proposal_feasibility, base_feasibility) ==
    IF proposal_feasibility = base_feasibility THEN Rat(2, 1000) ELSE Rat(3, 1000)

\* The trace item of an accepted swap: "a|b" is the pair of slot_ids,
\* "swap:a<->b" the tagged pair of subject_ids, the note its three parts.
SwapEntry(working, proposal, idx_a, idx_b, improved, base_feasibility, proposal_feasibility) ==
    TraceEntry(<<proposal[idx_a].slot_id, proposal[idx_b].slot_id>>,
               <<[subject_id |-> working[idx_a].subject_id, score |-> Zero],
                 [subject_id |-> working[idx_b].subject_id, score |-> Zero]>>,
               <<"swap", working[idx_a].subject_id, working[idx_b].subject_id>>,
               <<"RULE_REBALANCE_SWAP">>, <<>>,
               [improved |-> improved, before |-> Fixed3(base_feasibility),
                after |-> Fixed3(proposal_feasibility)],
               SwapImpact(proposal_feasibility, base_feasibility))

SwapWrite(a, st, proposal, idx_a, idx_b) ==
    [st EXCEPT !.working = proposal,
               !.accepted = @ + 1,
               !.iterations = @ + 1,
               !.decision_trace =
                   Record(a, @,
                          SwapEntry(st.working, proposal, idx_a, idx_b,
                                    _humanity_improves(_humanity_vector(st.working),
                                                       _humanity_vector(proposal)),
                                    _feasibility_score(st.working, st.allowed, st.windows),
                                    _feasibility_score(proposal, st.allowed, st.windows)))]

ResultKey(item) == IntKey(<<item.date, item.slot_id, item.subject_id>>)

\* return sorted(working, key=...)
Returned(st) == [st EXCEPT !.pc = "done", !.result = sorted(st.working, ResultKey)]

NotRebalanced ==
    [pc |-> "start", working |-> <<>>, max_subjects_per_day |-> 0, max_swaps |-> 0,
     max_iterations |-> 0, near_days_window |-> 0, locked_slot_ids |-> {},
     locked_dates |-> {}, windows |-> <<>>, allowed |-> <<>>, strategy_modes |-> <<>>,
     accepted |-> 0, iterations |-> 0, decision_trace |-> <<>>, result |-> <<>>]

\* The code before the loop: the copy, the early return of a list of fewer
\* than two records as it is, the resolved configuration.
RebBeginTo(a, st) ==
    IF Len(a.allocations) < 2
    THEN [st EXCEPT !.pc = "done", !.working = a.allocations, !.result = a.allocations]
    ELSE [st EXCEPT !.pc = "loop", !.working = a.allocations,
                    !.max_subjects_per_day = max_subjects_per_day(a),
                    !.max_swaps = max_swaps(a),
                    !.max_iterations = max_iterations(a),
                    !.near_days_window = near_days_window(a),
                    !.locked_slot_ids = locked_slot_ids(a),
                    !.locked_dates = locked_dates(a),
                    !.windows = _subject_windows(a.subjects),
                    !.allowed = _allowed_by_day(a.slots),
                    !.strategy_modes = _strategy_mode_by_subject(a)]

\* while accepted < max_swaps and iterations < max_iterations
RebLoopOn(st) ==
    st.pc = "loop" /\ st.accepted < st.max_swaps /\ st.iterations < st.max_iterations

\* One iteration that accepts a swap.
RebSwapOn(a, st) == RebLoopOn(st) /\ Accepted(a, st) # NoPair
RebSwapTo(a, st) ==
    SwapWrite(a, st, Proposal(st.working, Accepted(a, st)[1], Accepted(a, st)[2]),
              Accepted(a, st)[1], Accepted(a, st)[2])

\* One iteration without candidates or without an accepted swap: break.
RebBreakOn(a, st) == RebLoopOn(st) /\ Accepted(a, st) = NoPair
RebBreakTo(st) == Returned([st EXCEPT !.iterations = @ + 1])

\* The loop condition fails: a budget is used up.
RebExitOn(st) == st.pc = "loop" /\ ~RebLoopOn(st)
RebExitTo(st) == Returned(st)

\* ---- inputs of rebalance_allocations
\* Lists hold up to MaxRecords records; max_swaps ranges over 0..MaxSwaps.
MaxRecords == 3
MaxSwaps == 2

\* A record of one minute in the slot of its day (the slot_id is the day):
\* base or buffer minutes of a subject, or slack.
PlainRecords ==
    {r \in [slot_id : Days, date : Days, subject_id : {Slack} \cup 1..NumSubjects,
            minutes : {1}, bucket : {"base", "buffer", "slack"},
            locked_by_user : {FALSE}, pinned : {FALSE}] :
        /\ r.slot_id = r.date
        /\ (r.bucket = "slack") = (r.subject_id = Slack)}

\* The lists of zero to MaxRecords such records.
RecordLists ==
    {SubSeq(l, 1, n) : <<l, n>> \in [1..MaxRecords -> PlainRecords] \X (0..MaxRecords)}

\* The ways a record says that it must stay.
Marks == {"locked_by_user", "pinned", "manual_locked", "manual"}
Marked(r, mark) ==
    CASE mark = "locked_by_user" -> [r EXCEPT !.locked_by_user = TRUE]
      [] mark = "pinned" -> [r EXCEPT !.pinned = TRUE]
      [] mark = "manual_locked" -> [r EXCEPT !.bucket = "manual_locked"]
      [] mark = "manual" -> [r EXCEPT !.slot_id = -r.date]

\* The lists with one marked record.
MarkedLists ==
    {[l EXCEPT ![i] = Marked(l[i], mark)] :
        <<l, i, mark>> \in {t \in RecordLists \X (1..MaxRecords) \X Marks :
                               t[2] <= Len(t[1])}}

\* One slot a day, with room for every record or for one.
RoomySlots == [d \in Days |-> [slot_id |-> d, date |-> d, cap_minutes |-> MaxRecords,
                               tolerance_minutes |-> 0]]
TightSlots == [d \in Days |-> [slot_id |-> d, date |-> d, cap_minutes |-> 0,
                               tolerance_minutes |-> 1]]

FreeSubject(sid) ==
    [subject_id |-> sid, exam_dates |-> {}, selected_exam_date |-> NoDate,
     start_at |-> NoDate, end_by |-> NoDate]
FreeSubjects == [sid \in 1..NumSubjects |-> FreeSubject(sid)]

\* The subject lists in which the last subject has a window.
WindowedSubjects ==
    {[FreeSubjects EXCEPT ![NumSubjects] = w] :
        w \in {v \in [subject_id : {NumSubjects},
                      exam_dates : {{}} \cup {{e} : e \in Days},
                      selected_exam_date : {NoDate, 1}, start_at : {NoDate, MaxDay},
                      end_by : {NoDate, 1}] :
                  v.selected_exam_date # NoDate => v.exam_dates = {}}}

NoGlobalConfig ==
    [max_subjects_per_day |-> Absent, rebalance_max_swaps |-> Absent,
     rebalance_max_iterations |-> Absent, rebalance_near_days_window |-> Absent,
     default_strategy_mode |-> Absent]

Optional(values) == {Absent} \cup {{v} : v \in values}

\* The call with the given records and nothing else that restrains a swap.
PlainCall(allocations) ==
    [allocations |-> allocations, slots |-> RoomySlots, subjects |-> FreeSubjects,
     global_config |-> NoGlobalConfig, config_by_subject |-> <<>>,
     decision_trace |-> TRUE, past_cutoff |-> NoDate, max_swaps |-> MaxSwaps,
     near_days_window |-> 1, feasibility_regression_tolerance |-> Zero,
     locked_allocations |-> <<>>]

\* The swap and iteration budgets.
BudgetCalls ==
    {[PlainCall(l) EXCEPT !.max_swaps = m,
                          !.global_config.rebalance_max_swaps = c,
                          !.global_config.rebalance_max_iterations = i] :
        <<l, m, c, i>> \in RecordLists \X (0..MaxSwaps)
                           \X Optional(0..MaxSwaps) \X Optional({0, 1, MaxSwaps + 1})}

\* Windows of the last subject, with and without a tolerance.
WindowCalls ==
    {[PlainCall(l) EXCEPT !.subjects = s, !.feasibility_regression_tolerance = t] :
        <<l, s, t>> \in RecordLists \X WindowedSubjects \X {Zero, Rat(1, 2)}}

\* Records that must stay: marked ones, locked ones, past ones.
LockLists ==
    {<<>>, <<[slot_id |-> 1, date |-> 1]>>, <<[slot_id |-> -1, date |-> MaxDay]>>}
CutoffCalls ==
    {[PlainCall(l) EXCEPT !.past_cutoff = p, !.locked_allocations = k] :
        <<l, p, k>> \in RecordLists \X {NoDate, MaxDay} \X LockLists}
MarkedCalls == {PlainCall(l) : l \in MarkedLists}

\* The other settings, one at a time.
NearCalls ==
    {[PlainCall(l) EXCEPT !.near_days_window = n,
                          !.global_config.rebalance_near_days_window = c] :
        <<l, n, c>> \in RecordLists \X (0..1) \X Optional(0..1)}
VarietyCalls ==
    {[PlainCall(l) EXCEPT !.global_config.max_subjects_per_day = c] :
        <<l, c>> \in RecordLists \X Optional(0..1)}
StrategyCalls ==
    {[PlainCall(l) EXCEPT !.global_config.default_strategy_mode = g,
                          !.config_by_subject = c] :
        <<l, g, c>> \in RecordLists \X Optional({"FORWARD"})
            \X {<<>>, <<[EmptyConfig EXCEPT !.strategy_mode = {"forward"}]>>,
                <<[EmptyConfig EXCEPT !.strategy_mode = {"backward"}]>>}}
SlotCalls ==
    {[PlainCall(l) EXCEPT !.slots = c] : <<l, c>> \in RecordLists \X {TightSlots, <<>>}}
UntracedCalls == {[PlainCall(l) EXCEPT !.decision_trace = FALSE] : l \in RecordLists}
\* One record of the list is of two minutes.
MinuteCalls ==
    {PlainCall([t[1] EXCEPT ![t[2]].minutes = 2]) :
        t \in {u \in RecordLists \X (1..MaxRecords) : u[2] <= Len(u[1])}}

\* The calls explored, family by family.
RebCalls ==
    {BudgetCalls, WindowCalls, CutoffCalls, MarkedCalls, NearCalls, VarietyCalls,
     StrategyCalls, SlotCalls, UntracedCalls, MinuteCalls}

NoRebalanceCall == PlainCall(<<>>)

RebBegin ==
    /\ reb.pc = "start"
    /\ \E calls \in RebCalls : args' \in calls
    /\ reb' = RebBeginTo(args', reb)
    /\ UNCHANGED alloc
RebSwap == RebSwapOn(args, reb) /\ reb' = RebSwapTo(args, reb) /\ UNCHANGED <<args, alloc>>
RebBreak == RebBreakOn(args, reb) /\ reb' = RebBreakTo(reb) /\ UNCHANGED <<args, alloc>>
RebExit == RebExitOn(reb) /\ reb' = RebExitTo(reb) /\ UNCHANGED <<args, alloc>>

InitRebalance == args = NoRebalanceCall /\ alloc = Idle /\ reb = NotRebalanced

NextRebalance == RebBegin \/ RebSwap \/ RebBreak \/ RebExit

SpecRebalance == InitRebalance /\ [][NextRebalance]_vars

\* ---- rebalance_allocations on plans whose records differ in minutes
RebBeginMinutes ==
    /\ reb.pc = "start"
    /\ args' \in MinuteCalls
    /\ reb' = RebBeginTo(args', reb)
    /\ UNCHANGED alloc

NextMinutes == RebBeginMinutes \/ RebSwap \/ RebBreak \/ RebExit

SpecMinutes == InitRebalance /\ [][NextMinutes]_vars

\* ============================================== sorting by the tie-break key
\* Priorities range over 1..MaxPriority.
MaxPriority == 2

\* The subjects sorted: the three of the unit test (a, b, c are 1, 2, 3; the
\* reference day 2026-01-01 is day 1), and the lists of NumSubjects + 1
\* subjects with distinct ids, an exam on a day of the horizon, a selected
\* exam date or no exam, in any order.
ExampleSubjects ==
    <<[subject_id |-> 1, exam_dates |-> {10}, selected_exam_date |-> NoDate, priority |-> 1],
      [subject_id |-> 2, exam_dates |-> {10}, selected_exam_date |-> NoDate, priority |-> 3],
      [subject_id |-> 3, exam_dates |-> {5}, selected_exam_date |-> NoDate, priority |-> 1]>>

RankedSubjects ==
    {s \in [subject_id : 1..(NumSubjects + 1),
            exam_dates : {{}} \cup {{e} : e \in Days},
            selected_exam_date : {NoDate, MaxDay},
            priority : 1..MaxPriority] :
        s.selected_exam_date # NoDate => s.exam_dates = {}}

RankedLists ==
    {l \in [1..(NumSubjects + 1) -> RankedSubjects] :
        \A i, j \in DOMAIN l : i # j => l[i].subject_id # l[j].subject_id}

SortCalls ==
    {[subjects |-> l, reference_day |-> d] : <<l, d>> \in RankedLists \X Days}
    \cup {[subjects |-> ExampleSubjects, reference_day |-> 1]}

NoSortCall == [subjects |-> <<>>, reference_day |-> 1]

\* sorted(subjects, key=lambda s: deterministic_tie_breaker_key(s, reference_day=ref))
SortTo(a) == [pc |-> "sorted", result |-> _subject_order(a.subjects, a.reference_day)]

InitSort == args = NoSortCall /\ alloc = Idle /\ reb = Idle

Sort ==
    /\ alloc.pc = "idle"
    /\ args' \in SortCalls
    /\ alloc' = SortTo(args')
    /\ UNCHANGED reb

NextSort == Sort

SpecSort == InitSort /\ [][NextSort]_vars

\* ================================================== compute_subject_workload
DEFAULT_ATTENDANCE_HOURS_PER_CFU == RatInt(6)

\* The attendance discount: none unless attending, the calendar hours when
\* they are supplied, cfu * attendance_hours_per_cfu otherwise.
AttendanceDiscount(subject, cfu, attended_calendar_hours) ==
    IF ~Get(subject.attending, FALSE) THEN Zero
    ELSE IF attended_calendar_hours # Absent
    THEN RatMax(Zero, Val(attended_calendar_hours))
    ELSE RatMax(Zero, RatMul(cfu, Get(subject.attendance_hours_per_cfu,
                                      DEFAULT_ATTENDANCE_HOURS_PER_CFU)))

\* Variant: hours_base is not floored at 0.
WorkloadUnfloored(hours_theoretical, attendance_discount_hours, difficulty_coeff, prep_gap_coeff, subject_buffer_percent) ==
    LET hours_base ==
            RatMul(RatMul(RatSub(hours_theoretical, attendance_discount_hours),
                          difficulty_coeff), prep_gap_coeff)
        hours_buffer == RatMax(Zero, RatMul(hours_base, subject_buffer_percent))
    IN [hours_theoretical |-> hours_theoretical,
        attendance_discount_hours |-> attendance_discount_hours,
        prep_gap_coeff |-> prep_gap_coeff,
        hours_base |-> hours_base,
        hours_buffer |-> hours_buffer,
        hours_target |-> RatAdd(hours_base, hours_buffer)]

\* The returned dictionary, from the values the formulas start with.
WorkloadFrom(hours_theoretical, attendance_discount_hours, difficulty_coeff, prep_gap_coeff, subject_buffer_percent) ==
    LET hours_base ==
            RatMax(Zero, RatMul(RatMul(RatSub(hours_theoretical, attendance_discount_hours),
                                       difficulty_coeff), prep_gap_coeff))
        hours_buffer == RatMax(Zero, RatMul(hours_base, subject_buffer_percent))
    IN [hours_theoretical |-> hours_theoretical,
        attendance_discount_hours |-> attendance_discount_hours,
        prep_gap_coeff |-> prep_gap_coeff,
        hours_base |-> hours_base,
        hours_buffer |-> hours_buffer,
        hours_target |-> RatAdd(hours_base, hours_buffer)]

compute_subject_workload(subject, subject_buffer_percent, attended_calendar_hours) ==
    WorkloadFrom(RatMul(Get(subject.cfu, Zero), RatInt(25)),
                 AttendanceDiscount(subject, Get(subject.cfu, Zero), attended_calendar_hours),
                 Get(subject.difficulty_coeff, One),
                 RatAdd(One, RatSub(One, RatMin(One, RatMax(Zero,
                     Get(subject.completion_initial, Zero))))),
                 subject_buffer_percent)

\* ---- inputs of compute_subject_workload
\* The subject of the unit test and, field by field: cfu 0, 1 or 6; a
\* difficulty of 0, 6/5 or 2 or none; a completion below, in and above
\* [0, 1]; attending or not; 5 or 30 attendance hours per cfu or none.
WorkloadSubjects ==
    [cfu : {{RatInt(0)}, {RatInt(1)}, {RatInt(6)}},
     difficulty_coeff : {Absent, {Zero}, {Rat(6, 5)}, {RatInt(2)}},
     completion_initial : {Absent, {Rat(-1, 4)}, {Rat(1, 4)}, {One}, {Rat(3, 2)}},
     attending : {Absent, {TRUE}},
     attendance_hours_per_cfu : {Absent, {RatInt(5)}, {RatInt(30)}}]

WorkloadCalls ==
    [subject : WorkloadSubjects,
     subject_buffer_percent : {Zero, Rat(1, 10), One},
     attended_calendar_hours : {Absent, {Zero}, {RatInt(10)}, {RatInt(200)}}]

ExampleWorkloadCall ==
    [subject |-> [cfu |-> {RatInt(6)}, difficulty_coeff |-> {Rat(6, 5)},
                  completion_initial |-> {Rat(1, 4)}, attending |-> {TRUE},
                  attendance_hours_per_cfu |-> {RatInt(5)}],
     subject_buffer_percent |-> Rat(1, 10),
     attended_calendar_hours |-> Absent]

NoWorkloadCall ==
    [subject |-> [cfu |-> Absent, difficulty_coeff |-> Absent,
                  completion_initial |-> Absent, attending |-> Absent,
                  attendance_hours_per_cfu |-> Absent],
     subject_buffer_percent |-> Zero, attended_calendar_hours |-> Absent]

InitWorkload == args = NoWorkloadCall /\ alloc = Idle /\ reb = Idle

Workload ==
    /\ alloc.pc = "idle"
    /\ args' \in WorkloadCalls
    /\ alloc' = [pc |-> "computed",
                 result |-> compute_subject_workload(args'.subject,
                                                     args'.subject_buffer_percent,
                                                     args'.attended_calendar_hours)]
    /\ UNCHANGED reb

NextWorkload == Workload

SpecWorkload == InitWorkload /\ [][NextWorkload]_vars

\* ========================================================= build_daily_slots
_WEEKDAY_NAMES == <<"mon", "tue", "wed", "thu", "fri", "sat", "sun">>

\* The weekday name of a day: day 1 (2026-01-01) is a Thursday.
WeekdayName(day) == _WEEKDAY_NAMES[((day + 2) % 7) + 1]

DefaultSleepHours == RatInt(8)

\* resolve_sleep_hours: by date, then by weekday, then sleep_hours_per_day.
resolve_sleep_hours(global_config, day) ==
    IF day \in DOMAIN global_config.sleep_overrides_by_date
    THEN global_config.sleep_overrides_by_date[day]
    ELSE IF WeekdayName(day) \in DOMAIN global_config.sleep_overrides_by_weekday
    THEN global_config.sleep_overrides_by_weekday[WeekdayName(day)]
    ELSE Get(global_config.sleep_hours_per_day, DefaultSleepHours)

_applies_to_day(constraint, day) ==
    constraint.date = day \/ constraint.weekday = WeekdayName(day)

\* The rank of a string among those the model uses, in string order.
StringRank(s) ==
    CASE s = "" -> 0
      [] s = "blocked" -> 1
      [] s = "cap_override" -> 2
      [] s = "fri" -> 3
      [] s = "mon" -> 4
      [] s = "sat" -> 5
      [] s = "sun" -> 6
      [] s = "thu" -> 7
      [] s = "tue" -> 8
      [] s = "wed" -> 9

ConstraintKey(c) ==
    IntKey(<<c.constraint_id, StringRank(c.type), c.date, StringRank(c.weekday)>>)

\* The constraints of a day, in sorted order.
AppliedTo(calendar_constraints, day) ==
    SelectSeq(sorted(calendar_constraints, ConstraintKey),
              LAMBDA c : _applies_to_day(c, day))

OfType(constraints, type) == SelectSeq(constraints, LAMBDA c : c.type = type)

RECURSIVE BlockedSum(_)
BlockedSum(blocked) ==
    IF blocked = <<>> THEN 0 ELSE Head(blocked).blocked_minutes + BlockedSum(Tail(blocked))

\* max(0, int(round((24 - sleep_hours) * 60)))
AwakeMinutes(sleep_hours) ==
    Max2(0, RoundHalfEven(RatMul(RatSub(RatInt(24), sleep_hours), RatInt(60))))

\* The slot of a day from the capacity before sleep, the tolerance and the
\* constraints of the day.
SlotOf(day, sleep_hours, awake_minutes, cap_pre_sleep, base_tolerance, overrides, blocked) ==
    LET effective_cap ==
            Max2(0, Max2(0, Min2(cap_pre_sleep, awake_minutes)) - BlockedSum(blocked))
        effective_total ==
            Max2(0, Max2(0, Min2(cap_pre_sleep + base_tolerance, awake_minutes))
                    - BlockedSum(blocked))
    IN [slot_id |-> day, date |-> day,
        cap_minutes |-> effective_cap,
        tolerance_minutes |-> Max2(0, effective_total - effective_cap),
        max_minutes |-> effective_cap + Max2(0, effective_total - effective_cap),
        sleep_hours |-> sleep_hours,
        blocked_minutes |-> BlockedSum(blocked),
        blocked_constraints |-> [i \in DOMAIN blocked |-> blocked[i].constraint_id],
        cap_override_minutes |-> overrides]

\* min(cap_override_values), as an optional value.
MinOverride(overrides) ==
    IF overrides = <<>> THEN Absent
    ELSE {MinOfSet({overrides[i].cap_override_minutes : i \in DOMAIN overrides})}

DaySlot(a, day, applied) ==
    SlotOf(day, resolve_sleep_hours(a.global_config, day),
           AwakeMinutes(resolve_sleep_hours(a.global_config, day)),
           Get(MinOverride(OfType(applied, "cap_override")),
               a.global_config.daily_cap_minutes),
           a.global_config.daily_cap_tolerance_minutes,
           MinOverride(OfType(applied, "cap_override")),
           OfType(applied, "blocked"))

\* One slot a day from start_date to end_date.
build_daily_slots(a) ==
    [i \in 1..Max2(0, a.end_date - a.start_date + 1) |->
        DaySlot(a, a.start_date + i - 1,
                AppliedTo(a.calendar_constraints, a.start_date + i - 1))]

\* ---- inputs of build_daily_slots
\* Up to MaxConstraints calendar constraints.
MaxConstraints == 2

\* A constraint blocks minutes or overrides the cap, of a date, of a weekday
\* or of both; the minutes may be negative.
ConstraintRecords ==
    {c \in [constraint_id : 1..MaxConstraints, type : {"blocked", "cap_override"},
            date : {NoDate, 1}, weekday : {"", "fri"},
            cap_override_minutes : {-60, 0, 30, 2000},
            blocked_minutes : {-60, 0, 30, 2000}] :
        /\ c.type = "blocked" => c.cap_override_minutes = 0 /\ c.blocked_minutes # 0
        /\ c.type = "cap_override" => c.blocked_minutes = 0 /\ c.cap_override_minutes # 0}

ConstraintLists ==
    {SubSeq(l, 1, n) :
        <<l, n>> \in [1..MaxConstraints -> ConstraintRecords] \X (0..MaxConstraints)}

SlotConfigs ==
    [daily_cap_minutes : {90, 2000},
     daily_cap_tolerance_minutes : {-30, 30},
     sleep_hours_per_day : {Absent, {RatInt(23)}, {RatInt(25)}},
     sleep_overrides_by_date : {<<>>, 1 :> Rat(47, 2)},
     sleep_overrides_by_weekday : {<<>>, "fri" :> RatInt(24)}]

BuildCalls ==
    [start_date : {1}, end_date : {MaxDay}, global_config : SlotConfigs,
     calendar_constraints : ConstraintLists]

NoBuildCall ==
    [start_date |-> 1, end_date |-> 0,
     global_config |-> [daily_cap_minutes |-> 0, daily_cap_tolerance_minutes |-> 0,
                        sleep_hours_per_day |-> Absent,
                        sleep_overrides_by_date |-> <<>>,
                        sleep_overrides_by_weekday |-> <<>>],
     calendar_constraints |-> <<>>]

InitSlots == args = NoBuildCall /\ alloc = Idle /\ reb = Idle

BuildSlots ==
    /\ alloc.pc = "idle"
    /\ args' \in BuildCalls
    /\ alloc' = [pc |-> "built", result |-> build_daily_slots(args')]
    /\ UNCHANGED reb

NextSlots == BuildSlots

SpecSlots == InitSlots /\ [][NextSlots]_vars

\* ============================================ _resolve_subject_distribution
\* The settings of a scope: a mode that is valid, valid in upper case, not a
\* mode, or missing; limits that are missing, 0 or 4.
ScopeSettings ==
    [human_distribution_mode :
        {Absent, {"off"}, {"balanced"}, {"strict"}, {"STRICT"}, {"bogus"}},
     max_same_subject_streak_days : {Absent, {0}, {4}},
     max_same_subject_consecutive_blocks : {Absent, {0}, {4}},
     target_daily_subject_variety : {Absent, {0}, {4}}]

\* The settings of subject 1 as its config_by_subject entry.
SubjectScope(settings) ==
    [EmptyConfig EXCEPT
        !.human_distribution_mode = settings.human_distribution_mode,
        !.max_same_subject_streak_days = settings.max_same_subject_streak_days,
        !.max_same_subject_consecutive_blocks =
            settings.max_same_subject_consecutive_blocks,
        !.target_daily_subject_variety = settings.target_daily_subject_variety]

ResolveCalls ==
    {[distribution_config |-> g, config_by_subject |-> <<SubjectScope(s)>>] :
        <<g, s>> \in ScopeSettings \X ScopeSettings}

NoResolveCall ==
    [distribution_config |-> NoDistributionConfig, config_by_subject |-> <<>>]

InitResolve == args = NoResolveCall /\ alloc = Idle /\ reb = Idle

Resolve ==
    /\ alloc.pc = "idle"
    /\ args' \in ResolveCalls
    /\ alloc' = [pc |-> "resolved", result |-> per_subject_distribution(args', 1)]
    /\ UNCHANGED reb

NextResolve == Resolve

SpecResolve == InitResolve /\ [][NextResolve]_vars

\* ==================================== allocate_plan on two subjects alike
\* One slot a day over MaxDay + 1 days, of any capacities.
DailySlots ==
    {[i \in 1..(MaxDay + 1) |-> [slot_id |-> i, date |-> i, max_minutes |-> caps[i]]] :
        caps \in [1..(MaxDay + 1) -> 1..(MaxCap + 1)]}

\* Two subjects that differ in their subject_id only; the exam is on the last
\* day or two days later.
TwinSubjects ==
    {[sid \in 1..2 |-> [subject_id |-> sid, exam_dates |-> {e},
                        selected_exam_date |-> NoDate, priority |-> 1,
                        start_at |-> NoDate, end_by |-> NoDate]] :
        e \in {MaxDay + 1, MaxDay + 3}}

\* The same base demand for both, in minutes, and no buffer.
TwinWorkloads ==
    {[sid \in 1..2 |-> [hours_base |-> Rat(k, 60), hours_buffer |-> Zero]] :
        k \in 1..MaxWork}

\* The same features for both: none, or an urgency of 1.
TwinFeatures ==
    {[sid \in 1..2 |-> [NoFeatures EXCEPT !.urgency = u]] : u \in {Zero, One}}

\* The two subjects differ in strategy_mode only or in concentration_mode only.
TwinConfigs ==
    {<<[EmptyConfig EXCEPT !.strategy_mode = {x}],
       [EmptyConfig EXCEPT !.strategy_mode = {y}]>> :
        <<x, y>> \in {<<"forward", "backward">>, <<"backward", "forward">>}}
    \cup
    {<<[EmptyConfig EXCEPT !.concentration_mode = {x}],
       [EmptyConfig EXCEPT !.concentration_mode = {y}]>> :
        <<x, y>> \in {<<"concentrated", "diffuse">>, <<"diffuse", "concentrated">>}}

TwinCalls ==
    [slots : DailySlots, subjects : TwinSubjects,
     workload_by_subject : TwinWorkloads, session_minutes : 1..MaxCap,
     score_features_by_subject : TwinFeatures,
     continuity_config : {NoContinuityConfig},
     distribution_config : {NoDistributionConfig},
     config_by_subject : TwinConfigs,
     concentration_mode_by_subject : {<<>>},
     global_concentration_mode : {"diffuse"},
     decision_trace : {FALSE}]

\* No run on TwinCalls takes more steps than this.
TwinFuel == 4 + (MaxDay + 1) * (8 + 3 * (MaxCap + 1) + 4 * 2)

InitTwins == args = NoCall /\ alloc = Idle /\ reb = Idle

\* allocate_plan is called and runs to its return.
AllocateTwins ==
    /\ alloc.pc = "idle"
    /\ args' \in TwinCalls
    /\ alloc' = [pc |-> "allocated",
                 result |-> AllocResult(AllocRun(args', BeginTo(args', NotStarted), TwinFuel)),
                 returned |-> AllocRun(args', BeginTo(args', NotStarted), TwinFuel).pc = "done"]
    /\ UNCHANGED reb

NextTwins == AllocateTwins

SpecTwins == InitTwins /\ [][NextTwins]_vars

\* ============================ allocate_plan and the concentration modes
\* The ways a concentration mode is given, or not, in one place.
ModeValues == {Absent, {"concentrated"}, {"diffuse"}, {"CONCENTRATED"}, {"bogus"}}

\* One slot a day over MaxDay + 1 days, of one or two minutes.
ModeSlots ==
    {[i \in 1..(MaxDay + 1) |-> [slot_id |-> i, date |-> i, max_minutes |-> caps[i]]] :
        caps \in [1..(MaxDay + 1) -> 1..MaxCap]}

\* Two subjects alike, their exam on the last day.
ModeSubjects ==
    [sid \in 1..2 |-> [subject_id |-> sid, exam_dates |-> {MaxDay + 1},
                       selected_exam_date |-> NoDate, priority |-> 1,
                       start_at |-> NoDate, end_by |-> NoDate]]

\* Both have an urgency of 1; subject 1 has its mode in its
\* config_by_subject entry, in the map of modes, in both or in neither.
ModeCalls ==
    {[slots |-> s, subjects |-> ModeSubjects,
      workload_by_subject |-> [sid \in 1..2 |-> [hours_base |-> Rat(k, 60), hours_buffer |-> Zero]],
      session_minutes |-> q,
      score_features_by_subject |-> [sid \in 1..2 |-> [NoFeatures EXCEPT !.urgency = One]],
      continuity_config |-> NoContinuityConfig,
      distribution_config |-> NoDistributionConfig,
      config_by_subject |-> <<[EmptyConfig EXCEPT !.concentration_mode = c]>>,
      concentration_mode_by_subject |-> <<m>>,
      global_concentration_mode |-> g,
      decision_trace |-> FALSE] :
        <<s, k, q, c, m, g>> \in ModeSlots \X (1..MaxWork) \X (1..MaxCap) \X ModeValues
                                 \X ModeValues \X {"diffuse", "concentrated", "bogus"}}

\* No run on ModeCalls takes more steps than this.
ModeFuel == 4 + (MaxDay + 1) * (8 + 3 * MaxCap + 4 * 2)

\* allocate_plan is called and runs to its return; the modes it resolved are
\* kept next to its result.
AllocateModes ==
    /\ alloc.pc = "idle"
    /\ args' \in ModeCalls
    /\ alloc' = [pc |-> "allocated",
                 result |-> AllocResult(AllocRun(args', BeginTo(args', NotStarted), ModeFuel)),
                 returned |-> AllocRun(args', BeginTo(args', NotStarted), ModeFuel).pc = "done",
                 modes |-> [sid \in 1..2 |-> per_subject_concentration_mode(args', sid)]]
    /\ UNCHANGED reb

NextModes == AllocateModes

SpecModes == InitTwins /\ [][NextModes]_vars

\* ================================ allocate_plan and the strategy modes
\* The ways the strategy mode of a subject is given, or not.
StrategyValues == {Absent, {"hybrid"}, {"HYBRID"}, {"bogus"}, {"forward"}}

\* Two subjects alike, with an urgency of 1; subject 2 has a strategy mode in
\* its config_by_subject entry.
UnknownCalls ==
    {[slots |-> s, subjects |-> ModeSubjects,
      workload_by_subject |-> [sid \in 1..2 |-> [hours_base |-> Rat(k, 60), hours_buffer |-> Rat(b, 60)]],
      session_minutes |-> q,
      score_features_by_subject |-> [sid \in 1..2 |-> [NoFeatures EXCEPT !.urgency = One]],
      continuity_config |-> NoContinuityConfig,
      distribution_config |-> NoDistributionConfig,
      config_by_subject |-> <<EmptyConfig, [EmptyConfig EXCEPT !.strategy_mode = v]>>,
      concentration_mode_by_subject |-> <<>>,
      global_concentration_mode |-> "diffuse",
      decision_trace |-> TRUE] :
        <<s, k, b, q, v>> \in ModeSlots \X (0..MaxWork) \X (0..1) \X (1..MaxCap)
                              \X StrategyValues}

\* allocate_plan is called and runs to its return; the items of the trace are
\* kept next to its result.
AllocateUnknown ==
    /\ alloc.pc = "idle"
    /\ args' \in UnknownCalls
    /\ alloc' = [pc |-> "allocated",
                 result |-> AllocResult(AllocRun(args', BeginTo(args', NotStarted), ModeFuel)),
                 returned |-> AllocRun(args', BeginTo(args', NotStarted), ModeFuel).pc = "done",
                 trace |-> AllocRun(args', BeginTo(args', NotStarted), ModeFuel).decision_trace]
    /\ UNCHANGED reb

NextUnknown == AllocateUnknown

SpecUnknown == InitTwins /\ [][NextUnknown]_vars

\* ============================= allocate_plan on days of several sessions
\* One slot a day over MaxDay + 1 days; a day may have no capacity at all.
SessionSlots ==
    {[i \in 1..(MaxDay + 1) |-> [slot_id |-> i, date |-> i, max_minutes |-> caps[i]]] :
        caps \in [1..(MaxDay + 1) -> 0..(MaxCap + 1)]}

\* Two subjects with the exam on the last day.
SessionSubjects ==
    [sid \in 1..2 |-> [subject_id |-> sid, exam_dates |-> {MaxDay + 1},
                       selected_exam_date |-> NoDate, priority |-> 1,
                       start_at |-> NoDate, end_by |-> NoDate]]

\* Base and buffer demands in minutes: equal ones and unequal ones.
SessionWorkloads ==
    {[sid \in 1..2 |-> [hours_base |-> Rat(base[sid], 60),
                        hours_buffer |-> Rat(buffer[sid], 60)]] :
        <<base, buffer>> \in {<<0, 0>>, <<1, 1>>, <<MaxWork, MaxWork>>, <<MaxWork, 1>>}
                             \X {<<0, 0>>, <<MaxWork, 0>>, <<MaxWork, MaxWork>>}}

\* No features, or the second subject urgent.
SessionFeatures ==
    {<<>>, [sid \in 1..2 |-> [NoFeatures EXCEPT !.urgency = RatInt(sid - 1)]]}

\* distribution_config: absent, strict or balanced, with the limits of the
\* mode or limits of one day and one block.
SessionDistributions ==
    {NoDistributionConfig,
     [NoDistributionConfig EXCEPT !.human_distribution_mode = {"strict"}]}
    \cup {[NoDistributionConfig EXCEPT !.human_distribution_mode = {mode},
                                       !.max_same_subject_streak_days = {1},
                                       !.max_same_subject_consecutive_blocks = {1}] :
             mode \in {"strict", "balanced"}}

SessionCalls ==
    [slots : SessionSlots, subjects : {SessionSubjects},
     workload_by_subject : SessionWorkloads, session_minutes : 1..MaxCap,
     score_features_by_subject : SessionFeatures,
     continuity_config : {NoContinuityConfig},
     distribution_config : SessionDistributions,
     config_by_subject : {<<>>},
     concentration_mode_by_subject : {<<>>},
     global_concentration_mode : {"diffuse"},
     decision_trace : {TRUE}]

BeginSessions ==
    /\ alloc.pc = "start"
    /\ args' \in SessionCalls
    /\ alloc' = BeginTo(args', alloc)
    /\ UNCHANGED reb

NextSessions ==
    \/ BeginSessions
    \/ P1Enter \/ P1Test \/ P1Alloc \/ P1SlotEnd \/ P1Done
    \/ P2Skip \/ P2Enter \/ P2Alloc \/ P2SlotEnd \/ P2Done
    \/ P3Skip \/ P3Enter \/ P3Alloc \/ P3Pass \/ P3SlotEnd \/ P3Done

SpecSessions == Init /\ [][NextSessions]_vars

\* =============================================================== run_planner
\* _DEF_START and _DEF_END: 2026-01-01 and 2026-01-07.
_DEF_START == 1
_DEF_END == 7

\* _parse_date(raw, fallback)
DateOr(raw, fallback) == IF raw = NoDate THEN fallback ELSE raw

\* The last day a subject asks for: max of end_by, selected_exam_date and the
\* exam dates, _DEF_END standing for each one missing.
SubjectEnd(subject) ==
    MaxOfSet({DateOr(subject.end_by, _DEF_END), DateOr(subject.selected_exam_date, _DEF_END)}
             \cup subject.exam_dates)

_derive_horizon(subjects) ==
    IF subjects = <<>> THEN [start |-> _DEF_START, end |-> _DEF_END]
    ELSE [start |-> MinOfSet({DateOr(subjects[i].start_at, _DEF_START) : i \in DOMAIN subjects}),
          end |-> MaxOfSet({SubjectEnd(subjects[i]) : i \in DOMAIN subjects})]

\* replan_context.from_date, NoDate when there is none.
read_replan_window(payload) == payload.from_date

\* The minutes a manual session counts as done.
DoneMinutes(session) ==
    CASE session.status = "done" -> Max2(session.planned_minutes, session.actual_minutes_done)
      [] session.status = "partial" ->
            Min2(session.planned_minutes, Max2(0, session.actual_minutes_done))
      [] OTHER -> 0

RECURSIVE EffectiveDone(_, _)
\* compute_manual_progress(manual_sessions)[sid]["effective_done_minutes"]
EffectiveDone(manual_sessions, sid) ==
    IF manual_sessions = <<>> THEN 0
    ELSE (IF Head(manual_sessions).subject_id = sid THEN DoneMinutes(Head(manual_sessions))
          ELSE 0) + EffectiveDone(Tail(manual_sessions), sid)

\* The base minutes of a subject less the minutes done by hand.
AdjustedBaseMinutes(payload, subject) ==
    Max2(0, HoursToMinutes(compute_subject_workload(subject,
                Get(payload.global_config.subject_buffer_percent, Rat(1, 10)),
                Absent).hours_base)
            - EffectiveDone(payload.manual_sessions, subject.subject_id))

\* workload_by_subject[sid]: the workload with hours_base adjusted.
AdjustedWorkload(payload, subject) ==
    [compute_subject_workload(subject,
        Get(payload.global_config.subject_buffer_percent, Rat(1, 10)), Absent)
     EXCEPT !.hours_base = Rat(AdjustedBaseMinutes(payload, subject), 60)]

\* split_previous_plan: the records dated before from_date are preserved, the
\* others (those without a date too) can be planned again.
split_previous_plan(previous_allocations, from_date) ==
    IF from_date = NoDate
    THEN [preserved |-> <<>>, replannable |-> previous_allocations]
    ELSE [preserved |-> SelectSeq(previous_allocations,
                                  LAMBDA item : item.date # NoDate /\ item.date < from_date),
          replannable |-> SelectSeq(previous_allocations,
                                    LAMBDA item : ~(item.date # NoDate /\ item.date < from_date))]

\* A manual session becomes a locked allocation.
IsLockedSession(session, from_date) ==
    /\ session.status # "skipped"
    /\ session.locked_by_user \/ session.pinned
    /\ session.date # NoDate
    /\ ~(from_date # NoDate /\ session.date < from_date)

\* The locked allocation of a session: the slot_id manual-<date> is -date.
LockedAllocation(session) ==
    [slot_id |-> -session.date, date |-> session.date,
     subject_id |-> session.subject_id, minutes |-> session.planned_minutes,
     bucket |-> "manual_locked", manual_session_id |-> session.session_id]

RECURSIVE extract_locked_manual_allocations(_, _)
extract_locked_manual_allocations(manual_sessions, from_date) ==
    IF manual_sessions = <<>> THEN <<>>
    ELSE (IF IsLockedSession(Head(manual_sessions), from_date)
          THEN <<LockedAllocation(Head(manual_sessions))>> ELSE <<>>)
         \o extract_locked_manual_allocations(Tail(manual_sessions), from_date)

\* The slots from from_date on, all of them without a from_date.
SlotsInWindow(slots, from_date) ==
    SelectSeq(slots, LAMBDA slot : from_date = NoDate \/ slot.date >= from_date)

\* The slot with the locked minutes of its date taken from its capacity.
ConstrainedSlot(slot, locked_minutes) ==
    [slot_id |-> slot.slot_id, date |-> slot.date,
     cap_minutes |-> Min2(Max2(0, slot.max_minutes - locked_minutes), slot.cap_minutes),
     tolerance_minutes |->
        Max2(0, Max2(0, slot.max_minutes - locked_minutes)
                - Min2(Max2(0, slot.max_minutes - locked_minutes), slot.cap_minutes)),
     max_minutes |-> Max2(0, slot.max_minutes - locked_minutes),
     sleep_hours |-> slot.sleep_hours, blocked_minutes |-> slot.blocked_minutes,
     blocked_constraints |-> slot.blocked_constraints,
     cap_override_minutes |-> slot.cap_override_minutes,
     locked_minutes |-> locked_minutes]

apply_locked_constraints_to_slots(slots, locked_allocations) ==
    [i \in DOMAIN slots |->
        ConstrainedSlot(slots[i],
            Max2(0, MinutesWhere(LAMBDA r : r.date = slots[i].date, locked_allocations)))]

\* DecisionTraceCollector(start_timestamp=datetime.now(timezone.utc))
DecisionTraceCollector(start_timestamp) ==
    [start_timestamp |-> start_timestamp, _sequence |-> 0, _items |-> <<>>]

\* The keyword arguments run_planner passes to allocate_plan and the
\* parameters allocate_plan has.
AllocateKeywords ==
    {"slots", "subjects", "workload_by_subject", "session_minutes",
     "distribution_config", "config_by_subject",
     "subject_concentration_mode_by_subject", "decision_trace"}
AllocateParameters ==
    {"slots", "subjects", "workload_by_subject", "session_minutes",
     "score_features_by_subject", "continuity_config", "distribution_config",
     "config_by_subject", "concentration_mode_by_subject",
     "global_concentration_mode", "decision_trace"}

\* The locals of run_planner up to locked_allocations (runner.py 96-149).
RunLocals(payload, now) ==
    [pc |-> "call", error |-> "",
     horizon |-> _derive_horizon(payload.subjects),
     from_date |-> read_replan_window(payload),
     slots |-> build_daily_slots(
                   [start_date |-> _derive_horizon(payload.subjects).start,
                    end_date |-> _derive_horizon(payload.subjects).end,
                    global_config |-> payload.global_config,
                    calendar_constraints |-> payload.calendar_constraints]),
     workload_by_subject |->
        [i \in DOMAIN payload.subjects |-> AdjustedWorkload(payload, payload.subjects[i])],
     effective_done_minutes |->
        [i \in DOMAIN payload.subjects |->
            EffectiveDone(payload.manual_sessions, payload.subjects[i].subject_id)],
     remaining_minutes |->
        [i \in DOMAIN payload.subjects |-> AdjustedBaseMinutes(payload, payload.subjects[i])],
     preserved_previous |->
        split_previous_plan(payload.previous_plan, read_replan_window(payload)).preserved,
     previous_horizon |->
        split_previous_plan(payload.previous_plan, read_replan_window(payload)).replannable,
     locked_allocations |->
        extract_locked_manual_allocations(payload.manual_sessions, read_replan_window(payload)),
     decision_trace |-> DecisionTraceCollector(now)]

\* The locals when the call of allocate_plan is reached: slots_in_window and
\* constrained_slots are set too.
WithWindow(st) ==
    [slots_in_window |-> SlotsInWindow(st.slots, st.from_date),
     constrained_slots |->
        apply_locked_constraints_to_slots(SlotsInWindow(st.slots, st.from_date),
                                          st.locked_allocations)] @@ st

RunBeginTo(payload, now) == WithWindow(RunLocals(payload, now))

\* allocate_plan(...) is called with a keyword it has no parameter for: the
\* call raises TypeError and run_planner returns nothing.
RunCallTo(st) == [st EXCEPT !.pc = "raised", !.error = "TypeError"]

\* What a call of run_planner ends in.
run_planner(payload, now) == RunCallTo(RunBeginTo(payload, now))

\* ---- inputs of run_planner
\* The wall-clock seconds at which a call starts.
Clock == 0..1

RunSubject ==
    [subject_id |-> 1, exam_dates |-> {3}, selected_exam_date |-> NoDate,
     start_at |-> NoDate, end_by |-> NoDate, priority |-> 1,
     cfu |-> {Rat(1, 50)}, difficulty_coeff |-> Absent, completion_initial |-> {One},
     attending |-> Absent, attendance_hours_per_cfu |-> Absent]

RunSubjectLists ==
    {<<>>, <<RunSubject>>, <<[RunSubject EXCEPT !.start_at = 2, !.end_by = 9]>>}

\* No manual session or one, of subject 1.
RunSessions ==
    [subject_id : {1}, date : {NoDate, 1, 2}, planned_minutes : {30, 120},
     actual_minutes_done : {0}, status : {"done", "planned", "skipped"},
     locked_by_user : BOOLEAN, pinned : {FALSE}, session_id : {10}]
RunSessionLists == {<<>>} \cup {<<s>> : s \in RunSessions}

\* Up to two records of a previous plan, dated or not.
PreviousRecords ==
    [slot_id : {1}, date : {NoDate, 1, 2}, subject_id : {1}, minutes : {1},
     bucket : {"base"}]
PreviousPlans ==
    {SubSeq(l, 1, n) : <<l, n>> \in [1..2 -> PreviousRecords] \X (0..2)}

RunConfig ==
    [daily_cap_minutes |-> 60, daily_cap_tolerance_minutes |-> 0,
     sleep_hours_per_day |-> Absent, sleep_overrides_by_date |-> <<>>,
     sleep_overrides_by_weekday |-> <<>>, subject_buffer_percent |-> Absent]

Payloads ==
    [subjects : RunSubjectLists, manual_sessions : RunSessionLists,
     previous_plan : PreviousPlans, from_date : {NoDate, 1, 2},
     global_config : {RunConfig}, calendar_constraints : {<<>>}]

NoPayload ==
    [subjects |-> <<>>, manual_sessions |-> <<>>, previous_plan |-> <<>>,
     from_date |-> NoDate, global_config |-> RunConfig, calendar_constraints |-> <<>>]

InitRun == args = NoPayload /\ alloc = Idle /\ reb = Idle

\* run_planner is called at some time and runs up to the call of allocate_plan.
RunBegin ==
    /\ alloc.pc = "idle"
    /\ args' \in Payloads
    /\ \E now \in Clock : alloc' = RunBeginTo(args', now)
    /\ UNCHANGED reb

\* The call of allocate_plan raises.
RunCall ==
    /\ alloc.pc = "call"
    /\ ~(AllocateKeywords \subseteq AllocateParameters)
    /\ alloc' = RunCallTo(alloc)
    /\ UNCHANGED <<args, reb>>

NextPlanner == RunBegin \/ RunCall

SpecPlanner == InitRun /\ [][NextPlanner]_vars

\* ================================================================== claims
NonSlackInSlot(allocations, slot) ==
    MinutesWhere(LAMBDA r : r.bucket # "slack" /\ r.slot_id = slot.slot_id, allocations)
NonSlackOnDay(allocations, day) ==
    MinutesWhere(LAMBDA r : r.bucket # "slack" /\ r.date = day, allocations)
OneSlotPerDay(slots) ==
    \A i, j \in DOMAIN slots : i # j => slots[i].date # slots[j].date
HasRecord(allocations, slot_id, bucket) ==
    \E i \in DOMAIN allocations :
        allocations[i].slot_id = slot_id /\ allocations[i].bucket = bucket

\* C1: at every point of an allocate_plan run, for every slot, the minutes of
\* the base and buffer records created for the slot are at most the slot's
\* max_minutes; with one slot per day the same holds of every day.
C1_Capacity ==
    /\ \A i \in DOMAIN args.slots :
          NonSlackInSlot(alloc.allocations, args.slots[i]) <= args.slots[i].max_minutes
    /\ OneSlotPerDay(args.slots) =>
          \A i \in DOMAIN args.slots :
              NonSlackOnDay(alloc.allocations, args.slots[i].date)
                  <= args.slots[i].max_minutes

\* A slot of more than one minute filled to its max_minutes by a base record
\* of Phase 1 and a buffer record of a later phase.
C1_SlotFilled ==
    \E i \in DOMAIN args.slots :
        /\ args.slots[i].max_minutes > 1
        /\ NonSlackInSlot(alloc.allocations, args.slots[i]) = args.slots[i].max_minutes
        /\ HasRecord(alloc.allocations, args.slots[i].slot_id, "base")
        /\ HasRecord(alloc.allocations, args.slots[i].slot_id, "buffer")

\* The step appends a buffer record.
BufferCreated ==
    /\ Len(alloc'.allocations) = Len(alloc.allocations) + 1
    /\ alloc'.allocations[Len(alloc'.allocations)].bucket = "buffer"
BufferSubjects(allocations) ==
    {allocations[i].subject_id : i \in {j \in DOMAIN allocations :
                                             allocations[j].bucket = "buffer"}}

\* C2: when allocate_plan creates a buffer record for a subject, the remaining
\* base minutes of the subject are 0 at that moment; in the returned result no
\* subject has a buffer record while its remaining_base_minutes is > 0.
C2_BaseBeforeBuffer ==
    /\ [][BufferCreated =>
             alloc.remaining_base[alloc'.allocations[Len(alloc'.allocations)].subject_id] = 0]_vars
    /\ [](alloc.pc = "done" =>
             \A s \in BufferSubjects(alloc.allocations) :
                 AllocResult(alloc).remaining_base_minutes[s] = 0)

\* A finished run in which one subject received buffer minutes while another
\* one, with base and buffer minutes left, received none although capacity
\* was left over (a slack record exists).
C2_BufferWithheld ==
    /\ alloc.pc = "done"
    /\ BufferSubjects(alloc.allocations) # {}
    /\ \E s \in DOMAIN alloc.remaining_base :
          /\ alloc.remaining_base[s] > 0 /\ alloc.remaining_buffer[s] > 0
          /\ s \notin BufferSubjects(alloc.allocations)
    /\ \E i \in DOMAIN alloc.allocations : alloc.allocations[i].bucket = "slack"

\* C3: allocate_plan terminates for every list of slots and subjects and every
\* integer session_minutes: the run always reaches the returned result.
C3_Terminates == <>(alloc.pc = "done")

\* The subject of the call with the given id.
SubjectOf(sid) ==
    args.subjects[CHOOSE i \in DOMAIN args.subjects : args.subjects[i].subject_id = sid]
\* min(end_by, exam date): the dates that bound the study of a subject.
DeadlineDates(subject) ==
    (subject.exam_dates \cup {subject.selected_exam_date, subject.end_by}) \ {NoDate}
BeforeDeadline(day, subject) ==
    DeadlineDates(subject) = {} \/ day <= MinOfSet(DeadlineDates(subject))
FromStart(day, subject) == subject.start_at = NoDate \/ day >= subject.start_at

\* ---- rebalance_allocations
\* The plan a rebalance_allocations call holds: the returned list once it has
\* returned, the working copy before.
Plan == IF reb.pc = "done" THEN reb.result ELSE reb.working

\* A step of the loop that accepts a swap.
SwapAccepted == reb.pc = "loop" /\ reb'.accepted = reb.accepted + 1

\* The positions whose subject_id is not the one of the input.
Moved == {i \in DOMAIN reb.working : reb.working[i].subject_id # args.allocations[i].subject_id}

\* The feasibility score of a plan under the slots and subjects of the call.
FeasibilityOf(allocations) ==
    _feasibility_score(allocations, _allowed_by_day(args.slots),
                       _subject_windows(args.subjects))

\* C4: every swap rebalance_allocations accepts leaves the feasibility score
\* at least at its value before the swap minus
\* feasibility_regression_tolerance, and with the tolerance 0 the returned
\* plan's score is not lower than the input plan's.
C4_FeasibilityKept ==
    /\ [][SwapAccepted =>
            RatLe(RatSub(FeasibilityOf(reb.working),
                         args.feasibility_regression_tolerance),
                  FeasibilityOf(reb'.working))]_vars
    /\ [](reb.pc = "done" /\ args.feasibility_regression_tolerance = Zero =>
            RatLe(FeasibilityOf(args.allocations), FeasibilityOf(reb.result)))

\* A call has returned after a swap that raised the feasibility score of a
\* plan with violations.
C4_FeasibilityRaised ==
    /\ reb.pc = "done" /\ reb.accepted > 0
    /\ RatLt(FeasibilityOf(args.allocations), FeasibilityOf(reb.result))

\* C5: for all non-negative max_swaps and global_config.rebalance_max_swaps
\* the swaps accepted in one call are at most min(max_swaps,
\* rebalance_max_swaps), and the loop runs at most max_iterations times.
C5_SwapBudget ==
    /\ reb.accepted <= Min2(args.max_swaps,
                            Get(args.global_config.rebalance_max_swaps, args.max_swaps))
    /\ reb.iterations <= reb.max_iterations

\* The records of a list without their subject_id.
Frames(allocations) ==
    [i \in DOMAIN allocations |->
        <<allocations[i].slot_id, allocations[i].date, allocations[i].minutes,
          allocations[i].bucket, allocations[i].locked_by_user, allocations[i].pinned>>]
SubjectsOf(allocations) == [i \in DOMAIN allocations |-> allocations[i].subject_id]
Occurrences(s, x) == Cardinality({i \in DOMAIN s : s[i] = x})
\* Two lists hold the same elements the same number of times.
SameBag(s, t) ==
    /\ Len(s) = Len(t)
    /\ \A i \in DOMAIN s : Occurrences(s, s[i]) = Occurrences(t, s[i])

\* C6: rebalance_allocations changes subject_ids only: the records of the
\* plan without their subject_id are those of the input, as many times each,
\* so are the subject_ids, every day keeps its total of non-slack minutes, and
\* the input list is left as it was passed.
C6_OnlySubjectsChange ==
    /\ [](reb.pc # "start" =>
            /\ SameBag(Frames(Plan), Frames(args.allocations))
            /\ SameBag(SubjectsOf(Plan), SubjectsOf(args.allocations))
            /\ \A day \in Days :
                  NonSlackOnDay(Plan, day) = NonSlackOnDay(args.allocations, day))
    /\ [][reb.pc # "start" => args' = args]_vars

\* A call has returned a plan in which a swap has changed subject_ids.
C6_SubjectsChanged ==
    /\ reb.pc = "done" /\ reb.accepted > 0
    /\ SubjectsOf(reb.result) # SubjectsOf(sorted(args.allocations, ResultKey))

\* A record the rebalancer must leave alone: locked by the user or pinned, of
\* the manual_locked bucket, in a manual slot, in a locked slot or on the date
\* of a locked manual slot, dated before past_cutoff, or slack.
Protected(r) ==
    \/ r.locked_by_user \/ r.pinned
    \/ r.bucket = "manual_locked"
    \/ Manual(r.slot_id)
    \/ \E i \in DOMAIN args.locked_allocations :
          \/ args.locked_allocations[i].slot_id = r.slot_id
          \/ /\ Manual(args.locked_allocations[i].slot_id)
             /\ args.locked_allocations[i].date = r.date
    \/ (args.past_cutoff # NoDate /\ r.date < args.past_cutoff)
    \/ r.subject_id = Slack

\* Every pair of records of the input holds a protected record.
NoFreePair ==
    \A i, j \in DOMAIN args.allocations :
        i # j => Protected(args.allocations[i]) \/ Protected(args.allocations[j])

ProtectedStay ==
    reb.pc # "start" =>
        /\ \A i \in DOMAIN args.allocations :
              Protected(args.allocations[i]) => reb.working[i] = args.allocations[i]
        /\ SameBag(Plan, reb.working)

\* C7 as stated: the protected records keep their subject_id, and when every
\* pair of records holds a protected one the result is the input list.
C7_ResultIsInput ==
    /\ ProtectedStay
    /\ (reb.pc = "done" /\ NoFreePair => reb.result = args.allocations)

\* C7: the protected records keep their subject_id, and when every pair of
\* records holds a protected one the result is the input list in (date,
\* slot_id, subject_id) order.
C7_ProtectedStay ==
    /\ ProtectedStay
    /\ (reb.pc = "done" /\ NoFreePair =>
            reb.result = sorted(args.allocations, ResultKey))

\* A call has returned after a swap next to a protected record of a subject.
C7_SwapBesideProtected ==
    /\ reb.pc = "done" /\ reb.accepted > 0
    /\ \E i \in DOMAIN args.allocations :
          Protected(args.allocations[i]) /\ args.allocations[i].subject_id # Slack

\* The date is inside the window of the subject: from its start_at on, up to
\* its end_by and its earliest exam date.
InsideWindow(day, sid) ==
    sid \in SubjectIds(args.subjects) =>
        FromStart(day, SubjectOf(sid)) /\ BeforeDeadline(day, SubjectOf(sid))

\* C8: every accepted swap puts the two subjects on dates inside their
\* windows, and no sequence of swaps leaves a subject on a date outside its
\* window that the input did not put it on.
C8_InsideWindows ==
    /\ [][SwapAccepted =>
            \A i \in DOMAIN reb.working :
                reb'.working[i].subject_id # reb.working[i].subject_id =>
                    InsideWindow(reb.working[i].date, reb'.working[i].subject_id)]_vars
    /\ [](reb.pc # "start" =>
            \A i \in Moved : InsideWindow(reb.working[i].date, reb.working[i].subject_id))

\* A swap has moved a subject with a window while a tolerance would have let
\* the feasibility score fall.
C8_WindowedMoved ==
    /\ reb.accepted > 0
    /\ args.feasibility_regression_tolerance # Zero
    /\ \E i \in Moved :
          /\ reb.working[i].subject_id \in SubjectIds(args.subjects)
          /\ \/ SubjectOf(reb.working[i].subject_id).start_at # NoDate
             \/ DeadlineDates(SubjectOf(reb.working[i].subject_id)) # {}

\* C9: allocate_plan never creates a base record for a subject in a slot dated
\* after the subject's effective deadline min(end_by, exam date), nor before
\* its start_at.
C9_Deadlines ==
    \A i \in DOMAIN alloc.allocations :
        alloc.allocations[i].bucket = "base" =>
            /\ BeforeDeadline(alloc.allocations[i].date,
                              SubjectOf(alloc.allocations[i].subject_id))
            /\ FromStart(alloc.allocations[i].date,
                         SubjectOf(alloc.allocations[i].subject_id))

\* The orderings of a list.
Orderings(n) == {p \in [1..n -> 1..n] : \A i, j \in 1..n : i # j => p[i] # p[j]}
Reordered(s, p) == [i \in DOMAIN s |-> s[p[i]]] \o <<>>
\* The call with its slots and subjects lists reordered.
ReorderedCall(p, q) ==
    [args EXCEPT !.slots = Reordered(@, p), !.subjects = Reordered(@, q)]
\* No run that ends takes more steps than this.
Fuel == 4 + NumSlots * (8 + 3 * MaxCap + 4 * NumSubjects)
SameResult(st) == st.pc = "done" /\ AllocResult(st) = AllocResult(alloc)

\* C10: for distinct subject_ids and distinct slots, the result of
\* allocate_plan (allocations, remaining_base_minutes, remaining_buffer_minutes)
\* is the same for every ordering of the subjects list and of the slots list,
\* and for a repeated run on the same input.
C10_OrderIndependent ==
    alloc.pc = "done" =>
        \A p \in Orderings(Len(args.slots)), q \in Orderings(Len(args.subjects)) :
            SameResult(AllocRun(ReorderedCall(p, q), NotStarted, Fuel))

\* A finished run on lists given out of order (the later slot first, the
\* higher subject_id first) that allocated minutes in both slots and to both
\* subjects.
C10_Shuffled ==
    /\ alloc.pc = "done"
    /\ args.slots[1].date > args.slots[2].date
    /\ args.subjects[1].subject_id > args.subjects[2].subject_id
    /\ \A k \in 1..2 :
          /\ \E i \in DOMAIN alloc.allocations :
                alloc.allocations[i].slot_id = k /\ alloc.allocations[i].bucket # "slack"
          /\ \E i \in DOMAIN alloc.allocations : alloc.allocations[i].subject_id = k

\* ---- deterministic_tie_breaker_key
\* The exam dates of a subject.
ExamsOf(subject) == subject.exam_dates \cup ({subject.selected_exam_date} \ {NoDate})

\* The days from the reference day to the earliest exam of a subject, never
\* negative.
DaysToExam(subject, reference_day) == Max2(0, MinOfSet(ExamsOf(subject)) - reference_day)

\* x comes before y: nearer exam (no exam last), then higher priority, then
\* smaller subject_id.
ComesBefore(x, y, reference_day) ==
    IF (ExamsOf(x) = {}) # (ExamsOf(y) = {}) THEN ExamsOf(y) = {}
    ELSE IF ExamsOf(x) # {} /\ DaysToExam(x, reference_day) # DaysToExam(y, reference_day)
    THEN DaysToExam(x, reference_day) < DaysToExam(y, reference_day)
    ELSE IF x.priority # y.priority THEN x.priority > y.priority
    ELSE x.subject_id < y.subject_id

\* C12: sorting subjects with distinct ids by deterministic_tie_breaker_key
\* puts every subject before the ones it comes before by exam distance, then
\* priority, then subject_id, keeps every subject, and sorts the three
\* subjects of the example as [c, b, a].
C12_TieBreakOrder ==
    alloc.pc = "sorted" =>
        /\ Len(alloc.result) = Len(args.subjects)
        /\ \A i \in DOMAIN args.subjects : \E j \in DOMAIN alloc.result :
              alloc.result[j] = args.subjects[i]
        /\ \A i, j \in DOMAIN alloc.result :
              i < j => ComesBefore(alloc.result[i], alloc.result[j], args.reference_day)
        /\ (args.subjects = ExampleSubjects =>
              [i \in DOMAIN alloc.result |-> alloc.result[i].subject_id] = <<3, 2, 1>>)

\* The subjects of the example have been sorted.
C12_ExampleSorted == alloc.pc = "sorted" /\ args.subjects = ExampleSubjects

\* ---- compute_subject_workload
\* The values the formulas of the workload give for a call.
Cfu == Get(args.subject.cfu, Zero)
Discount ==
    IF args.subject.attending # {TRUE} THEN Zero
    ELSE IF args.attended_calendar_hours # Absent THEN Val(args.attended_calendar_hours)
    ELSE RatMul(Cfu, Get(args.subject.attendance_hours_per_cfu, RatInt(6)))
Completion == Get(args.subject.completion_initial, Zero)
PrepGap ==
    RatSub(RatInt(2), IF RatLt(Completion, Zero) THEN Zero
                      ELSE IF RatLt(One, Completion) THEN One ELSE Completion)
UnflooredBase ==
    RatMul(RatMul(RatSub(RatMul(RatInt(25), Cfu), Discount),
                  Get(args.subject.difficulty_coeff, One)), PrepGap)

\* C20: compute_subject_workload returns hours_theoretical = 25 cfu, the
\* attendance discount (when attending: the supplied calendar hours, else
\* cfu * attendance_hours_per_cfu), prep_gap_coeff = 2 - completion_initial
\* clamped to [0, 1], hours_base = max(0, (theoretical - discount) *
\* difficulty * prep_gap), hours_buffer = hours_base * percent, hours_target
\* = base + buffer, none of them negative; the subject of the example gives
\* 150, 30, 1.75, 252, 25.2 and 277.2.
C20_WorkloadFormulas ==
    alloc.pc = "computed" =>
        /\ alloc.result.hours_theoretical = RatMul(RatInt(25), Cfu)
        /\ alloc.result.attendance_discount_hours = Discount
        /\ alloc.result.prep_gap_coeff = PrepGap
        /\ alloc.result.hours_base =
              (IF RatLt(UnflooredBase, Zero) THEN Zero ELSE UnflooredBase)
        /\ alloc.result.hours_buffer =
              RatMul(alloc.result.hours_base, args.subject_buffer_percent)
        /\ alloc.result.hours_target =
              RatAdd(alloc.result.hours_base, alloc.result.hours_buffer)
        /\ \A k \in DOMAIN alloc.result : RatLe(Zero, alloc.result[k])
        /\ (args = ExampleWorkloadCall =>
              alloc.result =
                  [hours_theoretical |-> RatInt(150),
                   attendance_discount_hours |-> RatInt(30),
                   prep_gap_coeff |-> Rat(7, 4), hours_base |-> RatInt(252),
                   hours_buffer |-> Rat(126, 5), hours_target |-> Rat(1386, 5)])

\* The workload of a subject whose discount exceeds its theoretical hours
\* has been computed: the floor of hours_base has acted.
C20_DiscountExceeds ==
    /\ alloc.pc = "computed"
    /\ RatLt(UnflooredBase, Zero)
    /\ alloc.result.hours_base = Zero

\* ---- build_daily_slots
\* C19: every slot build_daily_slots returns has 0 <= cap_minutes <=
\* max_minutes, max_minutes = cap_minutes + tolerance_minutes and max_minutes
\* at most the awake minutes (24 - sleep_hours) * 60 of its day.
C19_SlotBounds ==
    alloc.pc = "built" =>
        \A i \in DOMAIN alloc.result :
            /\ 0 <= alloc.result[i].cap_minutes
            /\ alloc.result[i].cap_minutes <= alloc.result[i].max_minutes
            /\ alloc.result[i].max_minutes =
                  alloc.result[i].cap_minutes + alloc.result[i].tolerance_minutes
            /\ RatLe(RatInt(alloc.result[i].max_minutes),
                     RatMul(RatSub(RatInt(24), alloc.result[i].sleep_hours), RatInt(60)))

\* ---- _resolve_subject_distribution
ValidMode(opt) == opt # Absent /\ Lower(Val(opt)) \in {"off", "balanced", "strict"}

\* The mode of the nearest scope with a valid one, "off" without any.
FallbackMode ==
    IF ValidMode(args.config_by_subject[1].human_distribution_mode)
    THEN Lower(Val(args.config_by_subject[1].human_distribution_mode))
    ELSE IF ValidMode(args.distribution_config.human_distribution_mode)
    THEN Lower(Val(args.distribution_config.human_distribution_mode))
    ELSE "off"

\* The limit of the nearest scope that has one, the default without any.
FallbackLimit(subject_entry, global_entry, default) ==
    Max2(1, Get(subject_entry, Get(global_entry, default)))

\* C18: the distribution settings of a subject resolve, value by value, to
\* the subject's value, to the global value when the subject's is missing or
\* invalid, and to the default of the mode when the global one is too; an
\* invalid mode of the subject resolves to the global mode.
C18_Fallback ==
    alloc.pc = "resolved" =>
        /\ alloc.result.mode = FallbackMode
        /\ alloc.result.max_streak_days =
              FallbackLimit(args.config_by_subject[1].max_same_subject_streak_days,
                            args.distribution_config.max_same_subject_streak_days,
                            _distribution_limits_for_mode(FallbackMode).default_max_streak)
        /\ alloc.result.max_same_day_blocks =
              FallbackLimit(args.config_by_subject[1].max_same_subject_consecutive_blocks,
                            args.distribution_config.max_same_subject_consecutive_blocks,
                            _distribution_limits_for_mode(FallbackMode).default_max_same_day_blocks)
        /\ alloc.result.target_daily_subject_variety =
              FallbackLimit(args.config_by_subject[1].target_daily_subject_variety,
                            args.distribution_config.target_daily_subject_variety,
                            _distribution_limits_for_mode(FallbackMode).min_variety)

\* ---- accepted swaps and the humanity components
\* One of the three components is strictly better after than before.
StrictlyBetter(before, after) ==
    \/ RatLt(after.mono_day_ratio, before.mono_day_ratio)
    \/ RatLt(after.streak_days, before.streak_days)
    \/ RatLt(before.subject_variety, after.subject_variety)

\* C15: every swap rebalance_allocations accepts gives a plan with a lower
\* mono_day_ratio, a lower maximal same-subject streak or a higher subject
\* variety index than the plan before the swap; a step of the loop that
\* improves none of the three changes no record.
C15_SwapImproves ==
    /\ [][SwapAccepted =>
            StrictlyBetter(_humanity_vector(reb.working), _humanity_vector(reb'.working))]_vars
    /\ [][reb.pc = "loop" /\ reb'.working # reb.working => SwapAccepted]_vars

\* A call has returned after accepting one swap, which improved exactly one
\* of the three components.
C15_OneComponentImproved ==
    /\ reb.pc = "done" /\ reb.accepted = 1 /\ args.decision_trace
    /\ Len(reb.decision_trace) = 1
    /\ Len(reb.decision_trace[1].tradeoff_note.improved) = 1

\* ---- strategy_mode and concentration_mode of two subjects alike
\* The base records of a subject in the returned plan.
BaseRecords(sid) ==
    {i \in DOMAIN alloc.result.allocations :
        /\ alloc.result.allocations[i].subject_id = sid
        /\ alloc.result.allocations[i].bucket = "base"}

BaseMinutes(sid) == SumOver([i \in BaseRecords(sid) |-> alloc.result.allocations[i].minutes],
                            BaseRecords(sid))

\* The minutes of the base records of a subject, each weighted by its day.
BaseDayMinutes(sid) ==
    SumOver([i \in BaseRecords(sid) |->
                alloc.result.allocations[i].minutes * alloc.result.allocations[i].date],
            BaseRecords(sid))

BaseDays(sid) == {alloc.result.allocations[i].date : i \in BaseRecords(sid)}

\* The subject of the call with a mode, NoSubject when neither has it.
WithStrategy(mode) ==
    IF \E sid \in 1..2 : args.config_by_subject[sid].strategy_mode = {mode}
    THEN CHOOSE sid \in 1..2 : args.config_by_subject[sid].strategy_mode = {mode}
    ELSE NoSubject

WithConcentration(mode) ==
    IF \E sid \in 1..2 : args.config_by_subject[sid].concentration_mode = {mode}
    THEN CHOOSE sid \in 1..2 : args.config_by_subject[sid].concentration_mode = {mode}
    ELSE NoSubject

\* C16: of two subjects alike but for strategy_mode, both with base records,
\* the forward one's minute-weighted average day is strictly less than the
\* backward one's.
C16_ForwardEarlier ==
    /\ alloc.pc = "allocated" /\ alloc.returned
    /\ WithStrategy("forward") # NoSubject
    /\ BaseMinutes(WithStrategy("forward")) > 0
    /\ BaseMinutes(WithStrategy("backward")) > 0
    => BaseDayMinutes(WithStrategy("forward")) * BaseMinutes(WithStrategy("backward"))
         < BaseDayMinutes(WithStrategy("backward")) * BaseMinutes(WithStrategy("forward"))

\* C17: of two subjects alike but for the concentration mode, the
\* concentrated one has base records on at most as many days as the diffuse
\* one.
C17_ConcentratedFewerDays ==
    /\ alloc.pc = "allocated" /\ alloc.returned
    /\ WithConcentration("concentrated") # NoSubject
    => Cardinality(BaseDays(WithConcentration("concentrated")))
         <= Cardinality(BaseDays(WithConcentration("diffuse")))

\* ---- run_planner
\* A call of run_planner has ended, and it has ended by returning.
RunEnded == alloc.pc \in {"raised", "returned"}
RunReturned == alloc.pc = "returned"

\* C11: a call of run_planner returns, and a call on the same payload at any
\* other wall-clock time returns the same decision_trace list.
C11_SameTrace ==
    RunEnded =>
        /\ RunReturned
        /\ \A now \in Clock :
              /\ run_planner(args, now).pc = "returned"
              /\ run_planner(args, now).result.decision_trace = alloc.result.decision_trace

\* C13: a call of run_planner returns, and on the date of every slot of
\* slots_in_window the non-slack minutes of plan are at most the slot's
\* max_minutes.
C13_PlanWithinSlots ==
    RunEnded =>
        /\ RunReturned
        /\ \A i \in DOMAIN alloc.result.slots_in_window :
              NonSlackOnDay(alloc.result.plan, alloc.result.slots_in_window[i].date)
                  <= alloc.result.slots_in_window[i].max_minutes

\* The previous records dated before the cutoff, and those dated on or after it.
Before(records, day) == SelectSeq(records, LAMBDA r : r.date # NoDate /\ r.date < day)
From(records, day) == SelectSeq(records, LAMBDA r : r.date # NoDate /\ r.date >= day)

\* C14: in a replan from a date D split_previous_plan partitions the previous
\* records (every record is in one group, as often as in the input; the
\* preserved ones are those dated before D), and run_planner returns a plan
\* that starts with the preserved records unchanged and holds, after them,
\* records dated on or after D only.
C14_ReplanKeepsPast ==
    RunEnded /\ args.from_date # NoDate =>
        /\ alloc.preserved_previous = Before(args.previous_plan, args.from_date)
        /\ SameBag(alloc.preserved_previous \o alloc.previous_horizon, args.previous_plan)
        /\ RunReturned
        /\ SubSeq(alloc.result.plan, 1, Len(alloc.preserved_previous)) = alloc.preserved_previous
        /\ \A i \in (Len(alloc.preserved_previous) + 1)..Len(alloc.result.plan) :
              alloc.result.plan[i].date >= args.from_date

\* ---- rebalance_allocations: what the loop accepts and where it stops
\* The locals of the call when the loop is entered for the first time.
AtLoopEntry == RebBeginTo(args, NotRebalanced)

\* The rule tags of the trace items the call has recorded.
LoggedRules ==
    UNION {SeqToSet(reb.decision_trace[i].applied_rules) : i \in DOMAIN reb.decision_trace}

\* No candidate pair of the locals gives a proposal with an improved
\* humanity component.
NoneImproves(a, st) ==
    \A i \in DOMAIN Candidates(a, st) :
        _humanity_improves(_humanity_vector(st.working),
                           _humanity_vector(Proposal(st.working, Candidates(a, st)[i][1],
                                                     Candidates(a, st)[i][2]))) = <<>>

\* C21: when a call with a swap budget and a collector finds a candidate pair
\* on its input but no candidate improves a humanity component, it still
\* accepts a fallback swap: the returned plan is not the input list and a
\* trace item carries the rule tag RULE_REBALANCE_FALLBACK_SWAP.
C21_FallbackSwap ==
    /\ reb.pc = "done" /\ Len(args.allocations) >= 2 /\ args.decision_trace
    /\ reb.max_swaps > 0 /\ reb.max_iterations > 0
    /\ Candidates(args, AtLoopEntry) # <<>>
    /\ NoneImproves(args, AtLoopEntry)
    => /\ reb.result # args.allocations
       /\ "RULE_REBALANCE_FALLBACK_SWAP" \in LoggedRules

\* ---- allocate_plan: the Phase-1 choice
\* The step appends a base record: a Phase-1 decision.
BaseCreated ==
    /\ Len(alloc'.allocations) = Len(alloc.allocations) + 1
    /\ alloc'.allocations[Len(alloc'.allocations)].bucket = "base"

\* The subjects Phase 1 has as candidates at the current slot.
CandidateSubjects ==
    {s \in SeqToSet(args.subjects) : P1Eligible(args, alloc, CurrentSlot(alloc), s)}

\* x comes before y in the order (score descending, tie-break key ascending).
Outranks(x, y) ==
    \/ RatLt(P1Score(args, alloc, CurrentSlot(alloc), y),
             P1Score(args, alloc, CurrentSlot(alloc), x))
    \/ /\ P1Score(args, alloc, CurrentSlot(alloc), x)
            = P1Score(args, alloc, CurrentSlot(alloc), y)
       /\ KeyLt(IntKey(deterministic_tie_breaker_key(x, CurrentSlot(alloc).date)),
                IntKey(deterministic_tie_breaker_key(y, CurrentSlot(alloc).date)))

\* The candidates no other candidate comes before.
FirstCandidates ==
    {x \in CandidateSubjects : \A y \in CandidateSubjects : ~Outranks(y, x)}

RECURSIVE TrailingBlocks(_, _)
\* The number of records at the end of a list that are of the subject.
TrailingBlocks(records, sid) ==
    IF records = <<>> THEN 0
    ELSE IF records[Len(records)].subject_id # sid THEN 0
    ELSE 1 + TrailingBlocks(SubSeq(records, 1, Len(records) - 1), sid)

\* One more block of the subject on the day would exceed the limit of
\* consecutive same-day blocks its distribution mode sets.
WouldExceedBlocks(sid, day) ==
    /\ per_subject_distribution(args, sid).mode # "off"
    /\ TrailingBlocks(SelectSeq(alloc.allocations, LAMBDA r : r.date = day), sid) + 1
         > per_subject_distribution(args, sid).max_same_day_blocks

\* C22: in every Phase-1 decision the selected subject is the first candidate
\* in the order (score descending, tie-break key ascending), unless that
\* first candidate would exceed its limit of consecutive same-day blocks.
C22_TopCandidate ==
    [][BaseCreated =>
          \E x \in FirstCandidates :
              \/ alloc'.allocations[Len(alloc'.allocations)].subject_id = x.subject_id
              \/ WouldExceedBlocks(x.subject_id, CurrentSlot(alloc).date)]_vars

\* Phase 1 has given a block to the second subject, whose score is the
\* highest, then one to the first subject because a second block in a row
\* would exceed the limit of the second, then one to the second again.
C22_SecondChoiceTaken ==
    /\ alloc.pc = "p1"
    /\ Len(alloc.allocations) >= 3
    /\ args.score_features_by_subject # <<>>
    /\ per_subject_distribution(args, 2).mode # "off"
    /\ alloc.allocations[1].date = alloc.allocations[3].date
    /\ alloc.allocations[1].subject_id = 2
    /\ alloc.allocations[2].subject_id = 1
    /\ alloc.allocations[3].subject_id = 2

\* ---- allocate_plan: the buffer phases
\* C23: in the result of allocate_plan a slot has a slack record of at least
\* session_minutes only if no subject with remaining base 0 still has
\* remaining buffer minutes.
C23_BufferUntilExhausted ==
    alloc.pc = "done" =>
        \A i \in DOMAIN alloc.allocations :
            /\ alloc.allocations[i].bucket = "slack"
            /\ alloc.allocations[i].minutes >= args.session_minutes
            => ~\E s \in DOMAIN alloc.remaining_base :
                   alloc.remaining_base[s] = 0 /\ alloc.remaining_buffer[s] > 0

\* The minutes of the records of a subject in a bucket.
SubjectBucketMinutes(allocations, sid, bucket) ==
    MinutesWhere(LAMBDA r : r.subject_id = sid /\ r.bucket = bucket, allocations)

\* C24: rebalance_allocations keeps, for every subject and for the base and
\* the buffer bucket, the total of the minutes of the subject's records: the
\* plan it holds and returns has the totals of the input.
C24_SubjectTotalsKept ==
    reb.pc # "start" =>
        \A sid \in 1..NumSubjects, bucket \in {"base", "buffer"} :
            SubjectBucketMinutes(Plan, sid, bucket)
                = SubjectBucketMinutes(args.allocations, sid, bucket)

\* The exam days a subject of the call declares: selected_exam_date when set,
\* else the earliest of exam_dates (none when neither is given).
DeclaredExamDays(a, sid) ==
    {IF a.subjects[i].selected_exam_date # NoDate
     THEN a.subjects[i].selected_exam_date
     ELSE CHOOSE e \in a.subjects[i].exam_dates :
              \A f \in a.subjects[i].exam_dates : e <= f :
        i \in {j \in DOMAIN a.subjects :
                  /\ a.subjects[j].subject_id = sid
                  /\ \/ a.subjects[j].selected_exam_date # NoDate
                     \/ a.subjects[j].exam_dates # {}}}

\* C25: allocate_plan never holds a buffer record of a subject in a slot
\* dated after the exam day of the subject, whether Phase 2 or Phase 3
\* created it.
C25_NoBufferAfterExam ==
    \A i \in DOMAIN alloc.allocations :
        alloc.allocations[i].bucket = "buffer" =>
            \A e \in DeclaredExamDays(args, alloc.allocations[i].subject_id) :
                alloc.allocations[i].date <= e

\* C26: minutes are conserved at every point of allocate_plan: for every
\* subject the required base minutes are the remaining base minutes plus the
\* minutes of its base records, likewise for the buffer; no remainder is
\* negative and every record has minutes > 0.
C26_MinutesConserved ==
    alloc.pc # "start" =>
        /\ \A sid \in SubjectIds(args.subjects) :
              /\ HoursToMinutes(WorkloadOf(args, sid).hours_base)
                    = alloc.remaining_base[sid]
                      + SubjectBucketMinutes(alloc.allocations, sid, "base")
              /\ HoursToMinutes(WorkloadOf(args, sid).hours_buffer)
                    = alloc.remaining_buffer[sid]
                      + SubjectBucketMinutes(alloc.allocations, sid, "buffer")
              /\ alloc.remaining_base[sid] >= 0
              /\ alloc.remaining_buffer[sid] >= 0
        /\ \A i \in DOMAIN alloc.allocations : alloc.allocations[i].minutes > 0

\* A call ended with a subject partly served (base record and base left)
\* and with a buffer record of another subject.
C26_PartlyServed ==
    /\ alloc.pc = "done"
    /\ \E sid \in SubjectIds(args.subjects) :
          /\ alloc.remaining_base[sid] > 0
          /\ SubjectBucketMinutes(alloc.allocations, sid, "base") > 0
    /\ \E i \in DOMAIN alloc.allocations : alloc.allocations[i].bucket = "buffer"

\* The subject has a record of positive minutes on the day.
StudiedOn(allocations, sid, day) ==
    \E i \in DOMAIN allocations :
        /\ allocations[i].subject_id = sid
        /\ allocations[i].date = day
        /\ allocations[i].minutes > 0

\* The subject has a base record on the day.
BaseOn(allocations, sid, day) ==
    \E i \in DOMAIN allocations :
        /\ allocations[i].subject_id = sid
        /\ allocations[i].date = day
        /\ allocations[i].bucket = "base"

\* The subject is under a cap of its same-subject day streak.
StreakLimited(sid) == per_subject_distribution(args, sid).mode \in {"balanced", "strict"}

\* C27: with the distribution mode balanced or strict, Phase 1 gives no base
\* minutes to a subject on a day when the subject has minutes on each of the
\* max_streak_days days before it; hence the base records of the subject
\* never cover more than max_streak_days consecutive days.
C27_StreakCap ==
    [][BaseCreated =>
          LET created == alloc'.allocations[Len(alloc'.allocations)]
              cap == per_subject_distribution(args, created.subject_id).max_streak_days
          IN StreakLimited(created.subject_id) =>
                /\ \E k \in 1..cap :
                      ~StudiedOn(alloc.allocations, created.subject_id, created.date - k)
                /\ \A first \in 1..(MaxDay + 1) :
                      \E k \in 0..cap :
                          ~BaseOn(alloc'.allocations, created.subject_id, first + k)]_vars

\* A call ended with a subject that has base minutes left and base records on
\* the max_streak_days days before a day whose slot had room for a session
\* and gave it nothing.
C27_SkippedOnCappedDay ==
    /\ alloc.pc = "done"
    /\ \E sid \in SubjectIds(args.subjects), i \in DOMAIN args.slots :
          LET cap == per_subject_distribution(args, sid).max_streak_days
              day == args.slots[i].date
          IN /\ StreakLimited(sid)
             /\ alloc.remaining_base[sid] > 0
             /\ day > cap
             /\ \A k \in 1..cap : BaseOn(alloc.allocations, sid, day - k)
             /\ args.slots[i].max_minutes >= args.session_minutes
             /\ ~StudiedOn(alloc.allocations, sid, day)
             /\ \E j \in DOMAIN alloc.allocations :
                   /\ alloc.allocations[j].date = day
                   /\ alloc.allocations[j].bucket = "slack"

\* C28: for every subject of a call the allocator and the rebalancer resolve
\* the same strategy mode from the same configuration: the override of the
\* subject, else the global default_strategy_mode, else hybrid.
C28_SameStrategyMode ==
    reb.pc \in {"loop", "done"} =>
        \A sid \in SubjectIds(args.subjects) \cap DOMAIN reb.strategy_modes :
            strategy_mode_by_subject(args, sid) = reb.strategy_modes[sid]

\* ---- rebalance_allocations run to its end
\* One step of the call from the locals st: the statement the call is at.
RebStep(a, st) ==
    CASE st.pc = "start" -> RebBeginTo(a, st)
      [] RebSwapOn(a, st) -> RebSwapTo(a, st)
      [] RebBreakOn(a, st) -> RebBreakTo(st)
      [] RebExitOn(st) -> RebExitTo(st)
      [] OTHER -> st

RECURSIVE RebRun(_, _, _)
\* The locals after at most `fuel` further steps of the call.
RebRun(a, st, fuel) ==
    IF st.pc = "done" \/ fuel = 0 THEN st ELSE RebRun(a, RebStep(a, st), fuel - 1)

\* No call takes more steps: the begin, MaxSwaps iterations, the return.
RebFuel == MaxSwaps + 3

\* The call with its allocations list reordered.
ReorderedPlan(p) == [args EXCEPT !.allocations = Reordered(@, p)]

\* C29: the plan rebalance_allocations returns depends on the records of the
\* input list only, not on their order: the call on any reordering of the
\* list returns the same records.
C29_InputOrderIndependent ==
    reb.pc = "done" =>
        \A p \in Orderings(Len(args.allocations)) :
            /\ RebRun(ReorderedPlan(p), NotRebalanced, RebFuel).pc = "done"
            /\ SameBag(RebRun(ReorderedPlan(p), NotRebalanced, RebFuel).result, reb.result)

\* The exchange of the subject_ids of records i and j of the plan would keep
\* max_subjects_per_day, keep the feasibility score within the tolerance and
\* improve a component of the humanity vector.
WouldImprove(plan, i, j) ==
    /\ _respects_max_subjects_per_day(Proposal(plan, i, j), reb.max_subjects_per_day)
    /\ ~Regresses(_feasibility_score(Proposal(plan, i, j), reb.allowed, reb.windows),
                  args.feasibility_regression_tolerance,
                  _feasibility_score(plan, reb.allowed, reb.windows))
    /\ _humanity_improves(_humanity_vector(plan),
                          _humanity_vector(Proposal(plan, i, j))) # <<>>

\* The call returned with both budgets not used up.
StoppedEarly ==
    /\ reb.pc = "done"
    /\ Len(args.allocations) >= 2
    /\ reb.accepted < reb.max_swaps
    /\ reb.iterations < reb.max_iterations

\* No eligible pair of the returned plan would improve it.
LocalOptimum ==
    \A i, j \in DOMAIN reb.result :
        i < j /\ Eligible(args, reb, reb.result[i], reb.result[j])
            => ~WouldImprove(reb.result, i, j)

\* The records whose subject_id one step of the call changes.
Rewritten ==
    {i \in DOMAIN reb.working : reb'.working[i] # reb.working[i]}

\* C30: rebalance_allocations accepts at most one swap per iteration of its
\* loop, and when it returns with both budgets not used up the returned plan
\* is a local optimum: no eligible pair of its records would keep
\* max_subjects_per_day, keep the feasibility within the tolerance and
\* improve a humanity component.
C30_OneSwapLocalOptimum ==
    /\ [][reb.pc = "loop" =>
              /\ reb'.iterations - reb.iterations \in {0, 1}
              /\ reb'.accepted - reb.accepted \in {0, 1}
              /\ reb'.accepted - reb.accepted <= reb'.iterations - reb.iterations
              /\ Cardinality(Rewritten) = 2 * (reb'.accepted - reb.accepted)]_vars
    /\ [](StoppedEarly => LocalOptimum)

\* A call that accepted a swap and then stopped with both budgets not used
\* up, on a plan that still has an eligible pair.
C30_StoppedAfterSwap ==
    /\ StoppedEarly
    /\ reb.accepted >= 1
    /\ \E i, j \in DOMAIN reb.result :
          i < j /\ Eligible(args, reb, reb.result[i], reb.result[j])

\* The minutes of the records of a slot that are, or are not, slack.
SlotMinutes(allocations, slot_id, slack) ==
    MinutesWhere(LAMBDA r : r.slot_id = slot_id /\ (r.bucket = "slack") = slack, allocations)

\* The slack records of a slot.
SlackRecords(allocations, slot_id) ==
    {i \in DOMAIN allocations :
        allocations[i].slot_id = slot_id /\ allocations[i].bucket = "slack"}

\* C31: the result of allocate_plan accounts for the whole capacity of every
\* slot: the minutes of the base, buffer and slack records of the slot sum
\* to its max_minutes, and the slot has at most one slack record, which holds
\* the minutes the base and buffer records leave unused.
C31_CapacityAccounted ==
    alloc.pc = "done" =>
        \A i \in DOMAIN args.slots :
            LET slot == args.slots[i]
                used == SlotMinutes(alloc.allocations, slot.slot_id, FALSE)
            IN /\ used + SlotMinutes(alloc.allocations, slot.slot_id, TRUE) = slot.max_minutes
               /\ Cardinality(SlackRecords(alloc.allocations, slot.slot_id)) <= 1
               /\ \A j \in SlackRecords(alloc.allocations, slot.slot_id) :
                     alloc.allocations[j].minutes = slot.max_minutes - used

\* A call ended with a slot that holds a buffer record and a slack record,
\* in a plan with base records.
C31_SlotWithBufferAndSlack ==
    /\ alloc.pc = "done"
    /\ \E i \in DOMAIN args.slots :
          /\ SlackRecords(alloc.allocations, args.slots[i].slot_id) # {}
          /\ \E j \in DOMAIN alloc.allocations :
                /\ alloc.allocations[j].slot_id = args.slots[i].slot_id
                /\ alloc.allocations[j].bucket = "buffer"
    /\ \E j \in DOMAIN alloc.allocations : alloc.allocations[j].bucket = "base"

\* The candidates that would not exceed their limit of same-day blocks.
CandidatesWithinLimit ==
    {x \in CandidateSubjects : ~WouldExceedBlocks(x.subject_id, CurrentSlot(alloc).date)}

\* The notes of the trace entries.
TraceNotes == {alloc.decision_trace[i].tradeoff_note : i \in DOMAIN alloc.decision_trace}

\* C32: when the top-ranked candidate of a Phase-1 decision would exceed its
\* limit of consecutive same-day blocks (balanced or strict mode), the
\* candidate selected is the highest-ranked one that would not exceed its
\* limit; the top candidate is selected only when there is none, and the
\* trace entry of the decision then carries the exception note.
C32_BlockLimitFallThrough ==
    [][BaseCreated =>
          \A top \in FirstCandidates :
              WouldExceedBlocks(top.subject_id, CurrentSlot(alloc).date) =>
                  LET created == alloc'.allocations[Len(alloc'.allocations)]
                  IN IF CandidatesWithinLimit # {}
                     THEN \E x \in CandidatesWithinLimit :
                              /\ created.subject_id = x.subject_id
                              /\ \A y \in CandidatesWithinLimit : ~Outranks(y, x)
                     ELSE /\ created.subject_id = top.subject_id
                          /\ alloc'.decision_trace[Len(alloc'.decision_trace)].tradeoff_note
                                = "exception"]_vars

\* A call in which Phase 1 took a second choice and, at its latest decision,
\* selected the top candidate beyond its limit for want of another.
C32_ExceptionAfterSecondChoice ==
    /\ alloc.pc = "p1"
    /\ alloc.decision_trace # <<>>
    /\ alloc.decision_trace[Len(alloc.decision_trace)].tradeoff_note = "exception"
    /\ "second_choice" \in TraceNotes
    /\ Cardinality({alloc.allocations[i].subject_id : i \in DOMAIN alloc.allocations}) = 2

\* A concentration mode as it is read when it is one of the two modes.
IsAMode(opt) == Has(opt) /\ Lower(Val(opt)) \in {"diffuse", "concentrated"}

\* The global default: the global mode, diffuse when it is not a mode.
GlobalDefault ==
    IF Lower(args.global_concentration_mode) \in {"diffuse", "concentrated"}
    THEN Lower(args.global_concentration_mode) ELSE "diffuse"

\* The entry of a subject in the map of modes, absent when it has none.
MapEntry(sid) ==
    IF sid \in DOMAIN args.concentration_mode_by_subject
    THEN args.concentration_mode_by_subject[sid] ELSE Absent

\* The mode of a subject by the stated precedence: the per-subject override of
\* config_by_subject, else the entry of the map, else the global default; a
\* value that is not a mode gives the global default.
StatedMode(sid) ==
    LET given == IF Has(ConfigOf(args, sid).concentration_mode)
                 THEN ConfigOf(args, sid).concentration_mode ELSE MapEntry(sid)
    IN IF IsAMode(given) THEN Lower(Val(given)) ELSE GlobalDefault

\* The call with the values that are not modes left out.
WithoutInvalid ==
    [args EXCEPT
        !.config_by_subject =
            [i \in DOMAIN @ |->
                IF Has(@[i].concentration_mode) /\ ~IsAMode(@[i].concentration_mode)
                THEN [@[i] EXCEPT !.concentration_mode = Absent] ELSE @[i]],
        !.concentration_mode_by_subject =
            [i \in DOMAIN @ |-> IF Has(@[i]) /\ ~IsAMode(@[i]) THEN Absent ELSE @[i]]]

\* C33: the concentration mode of a subject is its per-subject override of
\* config_by_subject when present, else its entry in the map of modes, else
\* the global default; a value that is not concentrated or diffuse gives the
\* global default, and the allocations are those of the call without it.
C33_ConcentrationModeResolved ==
    alloc.pc = "allocated" =>
        /\ \A sid \in 1..2 : alloc.modes[sid] = StatedMode(sid)
        /\ alloc.result.allocations
              = AllocResult(AllocRun(WithoutInvalid, BeginTo(WithoutInvalid, NotStarted),
                                     ModeFuel)).allocations

\* The call with every strategy mode that is not one of the three given as
\* hybrid.
AsHybrid ==
    [args EXCEPT
        !.config_by_subject =
            [i \in DOMAIN @ |->
                IF /\ Has(@[i].strategy_mode)
                   /\ Lower(Val(@[i].strategy_mode)) \notin {"forward", "backward", "hybrid"}
                THEN [@[i] EXCEPT !.strategy_mode = {"hybrid"}] ELSE @[i]]]

\* C34: a subject whose strategy_mode is not forward, backward or hybrid is
\* treated as a hybrid subject: the call returns the allocations and records
\* the trace items (candidate scores and rule tags) of the call in which the
\* mode of the subject is hybrid.
C34_UnknownModeIsHybrid ==
    alloc.pc = "allocated" =>
        LET hybrid == AllocRun(AsHybrid, BeginTo(AsHybrid, NotStarted), ModeFuel)
        IN /\ alloc.result = AllocResult(hybrid)
           /\ alloc.trace = hybrid.decision_trace

\* The limit of distinct subjects on a day the call is given: the configured
\* max_subjects_per_day when it is 1 or more, no limit otherwise.
GivenSubjectLimit ==
    LET c == args.global_config.max_subjects_per_day
    IN IF c # {} /\ Val(c) >= 1 THEN Val(c) ELSE NoSubjectLimit

\* The subjects of the non-slack records of a plan on a day.
DaySubjects(plan, day) ==
    {sid \in {plan[i].subject_id : i \in DOMAIN plan} :
        sid # Slack /\ \E i \in DOMAIN plan : plan[i].date = day /\ plan[i].subject_id = sid}

\* C35: every plan produced by a swap rebalance_allocations accepts has at
\* most max_subjects_per_day distinct non-slack subjects on every day.
C35_SwapKeepsSubjectLimit ==
    [][reb'.accepted > reb.accepted =>
          \A day \in {reb'.working[i].date : i \in DOMAIN reb'.working} :
              Cardinality(DaySubjects(reb'.working, day)) <= GivenSubjectLimit]_vars

\* A swap was accepted under a limit of one subject a day, in a plan with a
\* day of two records.
C35_SwapUnderLimitOfOne ==
    /\ reb.accepted >= 1
    /\ args.global_config.max_subjects_per_day = {1}
    /\ \E i, j \in DOMAIN reb.working :
          i # j /\ reb.working[i].date = reb.working[j].date

\* The phase a trace item was recorded in, by the first of its rules.
PhaseOfEntry(entry) ==
    CASE entry.applied_rules[1] = "RULE_PRE_EXAM_BUFFER" -> 2
      [] entry.applied_rules[1] \in {"RULE_GAP_FILL_BUFFER", "RULE_GAP_FILL_SLACK"} -> 3
      [] OTHER -> 1

\* The phase of record k of a list whose first i records are of Phase 1 and
\* whose records up to j are of Phases 1 and 2.
Segment(k, i, j) == IF k <= i THEN 1 ELSE IF k <= j THEN 2 ELSE 3

\* Slot (date, slot_id) of record x is not after that of record y.
SlotNotAfter(x, y) == x.date < y.date \/ (x.date = y.date /\ x.slot_id <= y.slot_id)

\* The list is the base records of Phase 1, then the buffer records of
\* Phase 2, then the buffer and slack records of Phase 3, each part by
\* ascending (date, slot_id); the items of a trace of that length are of
\* the same phases and slots.
PhasesInOrder(allocations, trace) ==
    \E i, j \in 0..Len(allocations) :
        /\ i <= j
        /\ \A k \in DOMAIN allocations :
              /\ Segment(k, i, j) = 1 <=> allocations[k].bucket = "base"
              /\ Segment(k, i, j) = 2 => allocations[k].bucket = "buffer"
              /\ Segment(k, i, j) = 3 => allocations[k].bucket \in {"buffer", "slack"}
              /\ k > 1 /\ Segment(k - 1, i, j) = Segment(k, i, j)
                    => SlotNotAfter(allocations[k - 1], allocations[k])
        /\ Len(trace) = Len(allocations) =>
              \A k \in DOMAIN trace :
                  /\ PhaseOfEntry(trace[k]) = Segment(k, i, j)
                  /\ trace[k].slot_id = allocations[k].slot_id

\* The phase after a phase.
PhaseAfter(pc) == CASE pc = "p1" -> "p2" [] pc = "p2" -> "p3" [] OTHER -> "done"

\* The buckets of the records a phase writes.
BucketsOf(pc) ==
    CASE pc = "p1" -> {"base"} [] pc = "p2" -> {"buffer"} [] OTHER -> {"buffer", "slack"}

\* C36: the three phases of allocate_plan follow one another without
\* overlapping: a phase is left for the next one only, each step appends at
\* most one record, of a bucket of the phase it is in, and in the returned
\* list and in the trace every Phase-1 base decision is before every Phase-2
\* buffer decision, which is before every Phase-3 gap-fill or slack decision,
\* the slots of each phase being in ascending (date, slot_id) order.
C36_PhasesSequential ==
    /\ [][alloc.pc \in {"p1", "p2", "p3"} =>
              /\ alloc'.pc \in {alloc.pc, PhaseAfter(alloc.pc)}
              /\ Len(alloc'.allocations) \in {Len(alloc.allocations), Len(alloc.allocations) + 1}
              /\ SubSeq(alloc'.allocations, 1, Len(alloc.allocations)) = alloc.allocations
              /\ Len(alloc'.allocations) > Len(alloc.allocations) =>
                    alloc'.allocations[Len(alloc'.allocations)].bucket \in BucketsOf(alloc.pc)]_vars
    /\ [](alloc.pc = "done" => PhasesInOrder(alloc.allocations, alloc.decision_trace))

\* A call returned with decisions of the three phases in its trace, those
\* of one phase in two slots, from slots given out of order.
C36_ThreePhasesTwoSlots ==
    /\ alloc.pc = "done"
    /\ Len(alloc.decision_trace) = Len(alloc.allocations)
    /\ {PhaseOfEntry(alloc.decision_trace[k]) : k \in DOMAIN alloc.decision_trace} = {1, 2, 3}
    /\ \E k, l \in DOMAIN alloc.decision_trace :
          /\ PhaseOfEntry(alloc.decision_trace[k]) = PhaseOfEntry(alloc.decision_trace[l])
          /\ alloc.decision_trace[k].slot_id # alloc.decision_trace[l].slot_id
    /\ args.slots # OrderSlots(args.slots)

\* ================================== allocate_plan with a trace collector
\* DecisionTraceCollector.record: the sequence number goes up by one and an
\* item with that number as decision_id and start_timestamp plus that many
\* seconds as timestamp is appended. Timestamps are in seconds.
record(collector, entry) ==
    [collector EXCEPT
        !._sequence = @ + 1,
        !._items = Append(@, [decision_id |-> collector._sequence + 1,
                              timestamp |-> collector.start_timestamp
                                                + (collector._sequence + 1),
                              item |-> entry])]

\* DecisionTraceCollector.as_list: sorted(items, key=(timestamp, decision_id))
as_list(collector) ==
    sorted(collector._items, LAMBDA x : IntKey(<<x.timestamp, x.decision_id>>))

RECURSIVE Recorded(_, _)
\* The collector after the record calls of a run, in their order.
Recorded(collector, entries) ==
    IF entries = <<>> THEN collector
    ELSE Recorded(record(collector, Head(entries)), Tail(entries))

\* Two subjects alike; sessions of 0 minutes and more, a collector passed. The
\* calls with sessions of 0 minutes have no base minutes: with base minutes
\* Phase 1 does not end.
TraceCalls ==
    {[slots |-> s, subjects |-> ModeSubjects,
      workload_by_subject |-> [sid \in 1..2 |-> [hours_base |-> Rat(k, 60), hours_buffer |-> Rat(b, 60)]],
      session_minutes |-> q,
      score_features_by_subject |-> <<>>,
      continuity_config |-> NoContinuityConfig,
      distribution_config |-> NoDistributionConfig,
      config_by_subject |-> <<>>,
      concentration_mode_by_subject |-> <<>>,
      global_concentration_mode |-> "diffuse",
      decision_trace |-> TRUE] :
        <<s, k, b, q>> \in {t \in ModeSlots \X (0..1) \X (0..MaxWork) \X (0..MaxCap) :
                                t[4] = 0 => t[2] = 0}}

\* The second a collector starts at.
StartTimestamps == 0..1

\* allocate_plan is called with a new collector and runs to its return, or
\* until the steps allowed are used up; the collector is kept next to its
\* result.
AllocateTraced ==
    /\ alloc.pc = "idle"
    /\ args' \in TraceCalls
    /\ \E start_timestamp \in StartTimestamps :
          alloc' = [pc |-> "allocated",
                    result |-> AllocResult(AllocRun(args', BeginTo(args', NotStarted), ModeFuel)),
                    returned |-> AllocRun(args', BeginTo(args', NotStarted), ModeFuel).pc = "done",
                    collector |->
                        Recorded(DecisionTraceCollector(start_timestamp),
                                 AllocRun(args', BeginTo(args', NotStarted), ModeFuel).decision_trace)]
    /\ UNCHANGED reb

NextTraced == AllocateTraced

SpecTraced == InitTwins /\ [][NextTraced]_vars

\* C37: the decision trace is an append-only log in decision order:
\* allocate_plan records exactly one item per allocation record it creates,
\* slack included; the n-th item has decision id n and timestamp start + n
\* seconds, and as_list returns the items in the order of recording, ids and
\* timestamps strictly increasing.
C37_OneItemPerRecord ==
    alloc.pc = "allocated" /\ alloc.returned =>
        LET items == as_list(alloc.collector)
            records == alloc.result.allocations
        IN /\ items = alloc.collector._items
           /\ Len(items) = Len(records)
           /\ \A n \in DOMAIN items :
                 /\ items[n].decision_id = n
                 /\ items[n].timestamp = alloc.collector.start_timestamp + n
                 /\ n \in DOMAIN records =>
                       /\ items[n].item.slot_id = records[n].slot_id
                       /\ items[n].item.selected_subject_id = records[n].subject_id
                 /\ n > 1 => /\ items[n - 1].decision_id < items[n].decision_id
                             /\ items[n - 1].timestamp < items[n].timestamp

\* The same for the calls with sessions of one minute or more.
C37_OneItemPerRecordOfSessions ==
    args.session_minutes >= 1 => C37_OneItemPerRecord

\* A call with sessions of 0 minutes returned with more items than records.
C37_ItemsWithoutRecords ==
    /\ alloc.pc = "allocated" /\ alloc.returned
    /\ args.session_minutes = 0
    /\ Len(as_list(alloc.collector)) > Len(alloc.result.allocations)
    /\ Len(alloc.result.allocations) >= 1

\* =========================================== apply_locked_constraints_to_slots
\* The slots build_daily_slots gives for MaxDay days without calendar
\* constraints, for a cap of 60 or 90 minutes and a tolerance of 0 or 30.
LockedSlotLists ==
    {build_daily_slots([start_date |-> 1, end_date |-> MaxDay,
                        global_config |->
                            [daily_cap_minutes |-> cap,
                             daily_cap_tolerance_minutes |-> tolerance,
                             sleep_hours_per_day |-> Absent,
                             sleep_overrides_by_date |-> <<>>,
                             sleep_overrides_by_weekday |-> <<>>],
                        calendar_constraints |-> <<>>]) :
        <<cap, tolerance>> \in {60, 90} \X {0, 30}}

\* Up to two locked manual allocations, as extract_locked_manual_allocations
\* makes them.
LockedRecords ==
    {LockedAllocation([subject_id |-> 1, date |-> day, planned_minutes |-> minutes,
                       session_id |-> 10]) :
        <<day, minutes>> \in (1..MaxDay) \X {-30, 0, 30, 60, 200}}
LockedLists ==
    {SubSeq(l, 1, n) : <<l, n>> \in [1..2 -> LockedRecords] \X (0..2)}

LockedCalls == [slots : LockedSlotLists, locked_allocations : LockedLists]

NoLockedCall == [slots |-> <<>>, locked_allocations |-> <<>>]

InitLocked == args = NoLockedCall /\ alloc = Idle /\ reb = Idle

\* apply_locked_constraints_to_slots is called and returns.
ApplyLocked ==
    /\ alloc.pc = "idle"
    /\ args' \in LockedCalls
    /\ alloc' = [pc |-> "constrained",
                 result |-> apply_locked_constraints_to_slots(args'.slots,
                                                              args'.locked_allocations)]
    /\ UNCHANGED reb

NextLocked == ApplyLocked

SpecLocked == InitLocked /\ [][NextLocked]_vars

\* The minutes of the locked allocations of a date, not less than 0.
LockedOn(day) ==
    Max2(0, MinutesWhere(LAMBDA r : r.date = day, args.locked_allocations))

\* The cap of the slot after the call is, to the minute, the share of its
\* max_minutes that the cap was of the max_minutes before the call.
SplitInProportion(before, after) ==
    before.max_minutes > 0 =>
        /\ after.cap_minutes * before.max_minutes
              - before.cap_minutes * after.max_minutes < before.max_minutes
        /\ before.cap_minutes * after.max_minutes
              - after.cap_minutes * before.max_minutes < before.max_minutes

\* C38: apply_locked_constraints_to_slots lowers the max_minutes of each slot
\* by the minutes of the locked manual allocations of its date, not below 0,
\* and splits what is left between cap_minutes and tolerance_minutes in the
\* proportion of the cap and the tolerance the slot had, cap_minutes plus
\* tolerance_minutes being max_minutes.
C38_LockedCapacityResplit ==
    alloc.pc = "constrained" =>
        /\ Len(alloc.result) = Len(args.slots)
        /\ \A i \in DOMAIN args.slots :
              /\ alloc.result[i].max_minutes
                    = Max2(0, args.slots[i].max_minutes - LockedOn(args.slots[i].date))
              /\ alloc.result[i].cap_minutes + alloc.result[i].tolerance_minutes
                    = alloc.result[i].max_minutes
              /\ SplitInProportion(args.slots[i], alloc.result[i])

\* The same without the proportion of the split.
C38_LockedCapacityDeducted ==
    alloc.pc = "constrained" =>
        /\ Len(alloc.result) = Len(args.slots)
        /\ \A i \in DOMAIN args.slots :
              /\ alloc.result[i].max_minutes
                    = Max2(0, args.slots[i].max_minutes - LockedOn(args.slots[i].date))
              /\ alloc.result[i].cap_minutes + alloc.result[i].tolerance_minutes
                    = alloc.result[i].max_minutes
              /\ alloc.result[i].locked_minutes = LockedOn(args.slots[i].date)

====
